---- MODULE Spec2Model ----
(***************************************************************************)
(* A model of the fetch engine of src/src/core/scraper.py: RateLimiter,    *)
(* CircuitBreaker, ResponseCache and WebScraper.scrape_target_async; of    *)
(* the strategy ladder and the ProxyRotator of stealth_scraper.py; and of  *)
(* the change detection of scraper.py and models.py.                       *)
(*                                                                         *)
(* Time is the value time.time() returns, in whole seconds.  Coroutines    *)
(* are cut at their suspension points: one action is the code a task runs  *)
(* between two awaits that really suspend (asyncio runs it atomically).    *)
(***************************************************************************)
EXTENDS Integers, Sequences, FiniteSets, TLC

(***************************************************************************)
(* Bounds of the model.                                                    *)
(***************************************************************************)
\* the pipeline clock advances in steps of TimeStep seconds, up to MaxTime
TimeStep == 30
MaxTime == 150
\* the clock of the stand-alone limiter and cache specifications: unit steps
MaxTick == 6
\* calls each caller of the stand-alone limiter makes
MaxCalls == 2
\* config.scraping.rate_limit_delay, the seconds per request the scraper is
\* configured with (WebScraper's limiter has rate = 1.0 / rate_limit_delay):
\* one step of the clock, so that the limiter's sleep shows on it
rate_limit_delay == 30
\* ProxyRotator.retry_after (timedelta(minutes=30)) in steps of the clock of
\* the stealth ladder, the last second of that clock, and the calls of
\* scrape_with_strategy each task makes
retry_after == 2
MaxLadderTime == 5
MaxRuns == 2

(***************************************************************************)
(* Program constants.                                                      *)
(***************************************************************************)
\* CircuitBreaker() defaults, the only breaker WebScraper ever builds
failure_threshold == 5
recovery_timeout == 60
\* RateLimiter(rate = 1.0 / rate_limit_delay, burst = 5) of WebScraper
burst == 5
\* ResponseCache(max_size = 1000), ttl_seconds = config.scraping.cache_ttl
max_size == 1000
cache_ttl == 3600
\* mark_failure: a proxy is blocked once fail_count > 5
fail_limit == 5

\* Python's None where a number is expected
None == -1
\* truthiness of an Optional[float]: None and 0.0 are falsy
Truthy(x) == x # None /\ x # 0

Procs == {"p1", "p2"}
Targets == {"t1", "t2"}
NoTarget == "-"
\* values of the headers argument: None, {} and one non-empty mapping
HeaderSets == {"None", "{}", "h"}
Urls == {"u1", "u2"}
Responses == {"r1", "r2"}
NoResponse == "None"

(***************************************************************************)
(* CircuitBreaker                                                          *)
(***************************************************************************)
CircuitBreaker(threshold, timeout) ==
    [failure_threshold |-> threshold, recovery_timeout |-> timeout,
     failure_count |-> 0, last_failure_time |-> None, state |-> "closed"]

\* mutant: the state is reset, the counter is not
call_succeeded_keeps_count(cb) ==
    [cb EXCEPT !.state = "closed"]

call_succeeded(cb) ==
    [cb EXCEPT !.failure_count = 0, !.state = "closed"]

\* mutant: the breaker opens one failure late
call_failed_late(cb, t) ==
    LET n == cb.failure_count + 1
    IN [cb EXCEPT !.failure_count = n,
                  !.last_failure_time = t,
                  !.state = IF n > cb.failure_threshold THEN "open" ELSE @]

\* mutant: the breaker opens only when the counter equals the threshold
call_failed_exact(cb, t) ==
    LET n == cb.failure_count + 1
    IN [cb EXCEPT !.failure_count = n,
                  !.last_failure_time = t,
                  !.state = IF n = cb.failure_threshold THEN "open" ELSE @]

call_failed(cb, t) ==
    LET n == cb.failure_count + 1
    IN [cb EXCEPT !.failure_count = n,
                  !.last_failure_time = t,
                  !.state = IF n >= cb.failure_threshold THEN "open" ELSE @]

\* mutant: a rejected probe restarts the recovery timer
is_open_sliding(cb, t) ==
    IF cb.state = "closed"
    THEN [open |-> FALSE, cb |-> cb]
    ELSE IF /\ cb.state = "open"
            /\ Truthy(cb.last_failure_time)
            /\ t - cb.last_failure_time > cb.recovery_timeout
         THEN [open |-> FALSE, cb |-> [cb EXCEPT !.state = "half-open"]]
         ELSE [open |-> cb.state = "open",
               cb |-> IF cb.state = "open" THEN [cb EXCEPT !.last_failure_time = t] ELSE cb]

\* the is_open property: its value and the breaker it leaves behind
is_open(cb, t) ==
    IF cb.state = "closed"
    THEN [open |-> FALSE, cb |-> cb]
    ELSE IF /\ cb.state = "open"
            /\ Truthy(cb.last_failure_time)
            /\ t - cb.last_failure_time > cb.recovery_timeout
         THEN [open |-> FALSE, cb |-> [cb EXCEPT !.state = "half-open"]]
         ELSE [open |-> cb.state = "open", cb |-> cb]

(***************************************************************************)
(* RateLimiter.  rate is kept as interval = 1 / rate, the seconds one      *)
(* token takes, and tokens is kept multiplied by interval, so that         *)
(* elapsed * rate and (1 - tokens) / rate stay whole numbers:              *)
(*   tokens (code) = tokens (model) / interval.                            *)
(***************************************************************************)
RateLimiter(interval, b, t) ==
    [interval |-> interval, burst |-> b, tokens |-> b * interval, last_update |-> t]

Min(a, b) == IF a <= b THEN a ELSE b

\* mutant: the bucket is filled without regard to burst
Replenish_uncapped(rl, t) ==
    [rl EXCEPT !.tokens = rl.tokens + (t - rl.last_update), !.last_update = t]

\* lines 51-54: replenish from the elapsed wall-clock time
Replenish(rl, t) ==
    [rl EXCEPT !.tokens = Min(rl.burst * rl.interval, rl.tokens + (t - rl.last_update)),
               !.last_update = t]

\* line 56: self.tokens < 1
MustSleep(rl) == rl.tokens < rl.interval

\* line 57: (1 - self.tokens) / self.rate
sleep_time(rl) == rl.interval - rl.tokens

\* line 59: self.tokens = 1
AfterSleep(rl) == [rl EXCEPT !.tokens = rl.interval]

\* mutant: the token is not taken
TakeToken_forgotten(rl) == rl

\* line 61: self.tokens -= 1
TakeToken(rl) == [rl EXCEPT !.tokens = @ - rl.interval]

(***************************************************************************)
(* ResponseCache.  cache and access_times always hold the same keys in     *)
(* the same insertion order (every insert and delete is done on both), so  *)
(* mem is that one ordered dict: a sequence of entries in insertion order. *)
(* disk is cache_dir: the function from the keys that have a .pkl file to  *)
(* the pickled record.                                                     *)
(***************************************************************************)
ResponseCache(size, ttl) ==
    [max_size |-> size, ttl_seconds |-> ttl, mem |-> <<>>, disk |-> <<>>]

\* sha256 of json.dumps({'url': url, 'headers': headers or {}}): one key per
\* (url, headers) pair, None and {} giving the same key
get_cache_key(url, headers) ==
    <<url, IF headers = "None" THEN "{}" ELSE headers>>

CacheKeys == {get_cache_key(u, h) : u \in Urls, h \in HeaderSets}

MemKeys(c) == {c.mem[i].key : i \in DOMAIN c.mem}

MemIndex(c, key) == CHOOSE i \in DOMAIN c.mem : c.mem[i].key = key

RemoveAt(seq, i) == SubSeq(seq, 1, i - 1) \o SubSeq(seq, i + 1, Len(seq))

\* del self.cache[key]; del self.access_times[key]
MemDelete(c, key) == [c EXCEPT !.mem = RemoveAt(@, MemIndex(c, key))]

\* mutant: a key the map already holds keeps its old response
MemPut_keeps_old(c, key, response, ts) ==
    LET e == [key |-> key, response |-> response, timestamp |-> ts]
    IN IF key \in MemKeys(c)
       THEN [c EXCEPT !.mem[MemIndex(c, key)].timestamp = ts]
       ELSE [c EXCEPT !.mem = Append(@, e)]

\* self.cache[key] = response; self.access_times[key] = ts
\* (a dict keeps the position of a key it already holds)
MemPut(c, key, response, ts) ==
    LET e == [key |-> key, response |-> response, timestamp |-> ts]
    IN IF key \in MemKeys(c)
       THEN [c EXCEPT !.mem[MemIndex(c, key)] = e]
       ELSE [c EXCEPT !.mem = Append(@, e)]

\* min(self.access_times, key=self.access_times.get): the first key, in
\* insertion order, among those of the smallest timestamp
OldestIndex(c) ==
    CHOOSE i \in DOMAIN c.mem :
        /\ \A j \in DOMAIN c.mem : c.mem[i].timestamp <= c.mem[j].timestamp
        /\ \A j \in 1..(i - 1) : c.mem[j].timestamp > c.mem[i].timestamp

\* lines 129-142 of get: the disk tier
DiskGet(c, key, t) ==
    IF key \in DOMAIN c.disk /\ t - c.disk[key].timestamp < c.ttl_seconds
    THEN [response |-> c.disk[key].response,
          cache |-> MemPut(c, key, c.disk[key].response, c.disk[key].timestamp)]
    ELSE [response |-> NoResponse, cache |-> c]

\* ResponseCache.get: the response returned (NoResponse for None) and the
\* cache it leaves behind
CacheGet(c, url, headers, t) ==
    LET key == get_cache_key(url, headers)
    IN IF key \in MemKeys(c)
       THEN IF t - c.mem[MemIndex(c, key)].timestamp < c.ttl_seconds
            THEN [response |-> c.mem[MemIndex(c, key)].response, cache |-> c]
            ELSE DiskGet(MemDelete(c, key), key, t)
       ELSE DiskGet(c, key, t)

\* the return statement of get that is reached: line 123 (the in-memory map),
\* line 138 (the .pkl file) or line 142
ServedFrom(c, url, headers, t) ==
    LET key == get_cache_key(url, headers)
    IN IF key \in MemKeys(c) /\ t - c.mem[MemIndex(c, key)].timestamp < c.ttl_seconds
       THEN "memory"
       ELSE IF CacheGet(c, url, headers, t).response # NoResponse THEN "disk" ELSE "none"

\* lines 148-156 of set: the memory tier
MemSet(c, key, response, t) ==
    LET c1 == IF Len(c.mem) >= c.max_size
              THEN [c EXCEPT !.mem = RemoveAt(@, OldestIndex(c))]
              ELSE c
    IN MemPut(c1, key, response, t)

\* mutant: set writes the in-memory map only
DiskWrite_skipped(c, key, response, t) == c

\* lines 158-165 of set: the disk tier
DiskWrite(c, key, response, t) ==
    [c EXCEPT !.disk = (key :> [timestamp |-> t, response |-> response]) @@ @]

\* ResponseCache.set
CacheSet(c, url, response, headers, t) ==
    LET key == get_cache_key(url, headers)
    IN DiskWrite(MemSet(c, key, response, t), key, response, t)

(***************************************************************************)
(* Extraction and change detection.  A page is what its price element      *)
(* reads; a field value is a float or a text; data is a function from      *)
(* field names to values.                                                  *)
(***************************************************************************)
\* a text is the sequence of its characters; a float is its value in units
\* of 10^-Decimals, so that the decimals of a price are kept exactly
Decimals == 5
Scale == 10 ^ Decimals
Float(n) == <<"float", n * Scale>>
Str(text) == <<"str", text>>

\* Python's None as a field value
NoneValue == <<"NoneType", "None">>

DigitChars == <<"0", "1", "2", "3", "4", "5", "6", "7", "8", "9">>
IsDigit(c) == \E i \in DOMAIN DigitChars : DigitChars[i] = c
DigitValue(c) == (CHOOSE i \in DOMAIN DigitChars : DigitChars[i] = c) - 1

\* str.count and the 'in' of one character
Count(text, c) == Cardinality({i \in DOMAIN text : text[i] = c})

\* the whole number a run of digits reads
RECURSIVE DigitsValue(_)
DigitsValue(ds) ==
    IF ds = <<>> THEN 0
    ELSE DigitsValue(SubSeq(ds, 1, Len(ds) - 1)) * 10 + DigitValue(ds[Len(ds)])

\* float(text) of a text of digits, '.' and '-': whether Python accepts it (an
\* optional sign, at most one point, at least one digit), and its value
Unsigned(text) == IF text # <<>> /\ text[1] = "-" THEN Tail(text) ELSE text

IsFloatLiteral(text) ==
    LET body == Unsigned(text)
    IN /\ \A i \in DOMAIN body : IsDigit(body[i]) \/ body[i] = "."
       /\ Count(body, ".") <= 1
       /\ \E i \in DOMAIN body : IsDigit(body[i])

FloatOf(text) ==
    LET body == Unsigned(text)
        dot == IF Count(body, ".") = 0
               THEN Len(body) + 1
               ELSE CHOOSE i \in DOMAIN body : body[i] = "."
        whole == SubSeq(body, 1, dot - 1)
        frac == SubSeq(body, dot + 1, Len(body))
        magnitude == DigitsValue(whole) * Scale
                     + DigitsValue(frac) * 10 ^ (Decimals - Len(frac))
    IN <<"float", IF body # text THEN 0 - magnitude ELSE magnitude>>

\* line 521: re.sub(r'[^\d.,\-]', '', text)
KeepPriceChars(text) ==
    SelectSeq(text, LAMBDA c : IsDigit(c) \/ c \in {".", ",", "-"})

\* mutant: the thousands separators stay in the text
RemoveCommas_kept(text) == text

\* line 522: price_text.replace(',', '')
RemoveCommas(text) == SelectSeq(text, LAMBDA c : c # ",")

\* line 528: price_text.replace(',', '.')
CommasToDots(text) == [i \in DOMAIN text |-> IF text[i] = "," THEN "." ELSE text[i]]

\* lines 531-533: re.findall(r'\d+\.?\d*', price_text)[0], the first run of
\* digits with the point and the digits that follow it; <<>> when there is none
FirstNumber(text) ==
    IF \A i \in DOMAIN text : ~IsDigit(text[i])
    THEN <<>>
    ELSE LET start == CHOOSE i \in DOMAIN text :
                          IsDigit(text[i]) /\ \A j \in 1..(i - 1) : ~IsDigit(text[j])
             RunEnd(from) ==
                 CHOOSE j \in (from - 1)..Len(text) :
                     /\ \A k \in from..j : IsDigit(text[k])
                     /\ j = Len(text) \/ ~IsDigit(text[j + 1])
             wholeEnd == RunEnd(start)
             last == IF wholeEnd < Len(text) /\ text[wholeEnd + 1] = "."
                     THEN RunEnd(wholeEnd + 2)
                     ELSE wholeEnd
         IN SubSeq(text, start, last)

\* WebScraper._extract_price of an element whose get_text(strip=True) is text;
\* a float() that raises is caught by the bare except and None is returned
extract_price(text) ==
    LET price_text == RemoveCommas(KeepPriceChars(text))
    IN IF Count(price_text, ".") = 1
       THEN IF IsFloatLiteral(price_text) THEN FloatOf(price_text) ELSE NoneValue
       ELSE IF Count(price_text, ",") = 1
            THEN IF IsFloatLiteral(CommasToDots(price_text))
                 THEN FloatOf(CommasToDots(price_text))
                 ELSE NoneValue
            ELSE IF FirstNumber(price_text) # <<>>
                 THEN FloatOf(FirstNumber(price_text))
                 ELSE NoneValue

\* str.lower (the texts of the model are ASCII)
UpperChars ==
    <<"A", "B", "C", "D", "E", "F", "G", "H", "I", "J", "K", "L", "M",
      "N", "O", "P", "Q", "R", "S", "T", "U", "V", "W", "X", "Y", "Z">>
LowerChars ==
    <<"a", "b", "c", "d", "e", "f", "g", "h", "i", "j", "k", "l", "m",
      "n", "o", "p", "q", "r", "s", "t", "u", "v", "w", "x", "y", "z">>
LowerChar(c) ==
    IF \E i \in DOMAIN UpperChars : UpperChars[i] = c
    THEN LowerChars[CHOOSE i \in DOMAIN UpperChars : UpperChars[i] = c]
    ELSE c
Lower(text) == [i \in DOMAIN text |-> LowerChar(text[i])]

\* word in text
Contains(text, word) ==
    \E i \in 0..(Len(text) - Len(word)) : SubSeq(text, i + 1, i + Len(word)) = word

\* the key words of lines 545, 548 and 551
PositiveWords ==
    {<<"i", "n", " ", "s", "t", "o", "c", "k">>,
     <<"a", "v", "a", "i", "l", "a", "b", "l", "e">>,
     <<"i", "n", "-", "s", "t", "o", "c", "k">>,
     <<"r", "e", "a", "d", "y">>}
NegativeWords ==
    {<<"o", "u", "t", " ", "o", "f", " ", "s", "t", "o", "c", "k">>,
     <<"u", "n", "a", "v", "a", "i", "l", "a", "b", "l", "e">>,
     <<"s", "o", "l", "d", " ", "o", "u", "t">>,
     <<"o", "u", "t", "-", "o", "f", "-", "s", "t", "o", "c", "k">>}
LimitedWords ==
    {<<"l", "i", "m", "i", "t", "e", "d">>,
     <<"l", "o", "w", " ", "s", "t", "o", "c", "k">>,
     <<"f", "e", "w", " ", "l", "e", "f", "t">>}

in_stock == Str(<<"i", "n", "_", "s", "t", "o", "c", "k">>)
out_of_stock == Str(<<"o", "u", "t", "_", "o", "f", "_", "s", "t", "o", "c", "k">>)
limited == Str(<<"l", "i", "m", "i", "t", "e", "d">>)

\* WebScraper._extract_availability of an element whose get_text(strip=True)
\* is text
extract_availability(text) ==
    LET low == Lower(text)
    IN IF \E w \in PositiveWords : Contains(low, w) THEN in_stock
       ELSE IF \E w \in NegativeWords : Contains(low, w) THEN out_of_stock
       ELSE IF \E w \in LimitedWords : Contains(low, w) THEN limited
       ELSE Str(SubSeq(low, 1, Min(50, Len(low))))

\* the field names of the model; 'price' in field_name.lower() (line 460) and
\* the key words of line 463
FieldNames == {"price", "sale_price", "availability", "stock", "title"}
IsPriceField(field_name) == field_name \in {"price", "sale_price"}
IsAvailabilityField(field_name) == field_name \in {"availability", "stock"}

\* what a selector finds in a document: the first of the five strategies of
\* _extract_with_strategy that yields an element ("css": soup.select, the
\* selector beginning with '.', '#' or '[' or holding a blank; "tag":
\* soup.find(selector); "attr": key=value; "text": the text: prefix; "path":
\* the '>' path), "none" when none does, "raises" when the evaluation of the
\* selector raised (soup.select on a selector that is not CSS) and no later
\* strategy found anything, and the text of that element
Matches == {"css", "tag", "attr", "text", "path", "none", "raises"}
Found(m, text) == [match |-> m, text |-> text]

\* the strategy whose value is coerced by the field's name (lines 459-467)
CoercedBy(m) == m = "css"

\* _extract_with_strategy raises: never, each of its five strategies being
\* inside a try of its own whose except lets the next strategy run (lines
\* 455-512)
StrategyRaises(found) == FALSE

\* WebScraper._extract_with_strategy
extract_with_strategy(found, field_name) ==
    IF found.match \in {"none", "raises"}
    THEN NoneValue
    ELSE IF CoercedBy(found.match) /\ IsPriceField(field_name)
         THEN extract_price(found.text)
         ELSE IF CoercedBy(found.match) /\ IsAvailabilityField(field_name)
              THEN extract_availability(found.text)
              ELSE Str(found.text)

\* a document as the selectors of a target see it: a function from the
\* requested field names to what their selectors find.  The extraction loop
\* of WebScraper._extract_data (lines 393-413): the fields whose value is not
\* None, their number, and successful_extractions / total_selectors * 100 as
\* the fraction num / den
Percent(n, total) == IF total > 0 THEN [num |-> n * 100, den |-> total] ELSE [num |-> 0, den |-> 1]

ExtractedFields(doc) ==
    LET value(k) == extract_with_strategy(doc[k], k)
        got == {k \in DOMAIN doc : value(k) # NoneValue}
        raised == {k \in DOMAIN doc : StrategyRaises(doc[k])}
    IN [data |-> [k \in got \ raised |-> value(k)],
        warnings |-> (DOMAIN doc \ got) \ raised,
        errors |-> raised,
        extraction_success_rate |->
            Percent(Cardinality(got \ raised), Cardinality(DOMAIN doc))]

\* StealthScraper._extract_data: soup.select(selector) finds what a CSS
\* selector, a tag name or a '>' path finds, and the value is the text of the
\* element as it stands
StealthFinds(m) == m \in {"css", "tag", "path"}

StealthFields(doc) ==
    LET got == {k \in DOMAIN doc : StealthFinds(doc[k].match)}
    IN [k \in got |-> Str(doc[k].text)]

\* response.text() of the two pages: the text of the element the 'price'
\* selector finds
PriceText(html) == IF html = "r1" THEN <<"$", "1", "0", "0">> ELSE <<"$", "8", "0">>

\* the two pages parsed, the target's selectors being {'price': '.price'}
Page(html) == ("price" :> Found("css", PriceText(html)))

\* the data WebScraper._extract_data extracts from a page
ExtractedData(html) == ExtractedFields(Page(html)).data

\* the data StealthScraper._extract_data extracts from a page
StealthData(html) == StealthFields(Page(html))

\* the field names in the order sorted() gives them
SortedFieldNames == <<"availability", "price", "sale_price", "stock", "title">>

\* a dict as Python holds it: its items in the order the keys were inserted
Items(data, order) == [i \in DOMAIN order |-> <<order[i], data[order[i]]>>]
\* the orders a dict of these keys can have been filled in
Orders(keys) ==
    {order \in [1..Cardinality(keys) -> keys] :
        \A i, j \in DOMAIN order : i # j => order[i] # order[j]}
\* the keys in sorted order
SortedKeys(keys) == SelectSeq(SortedFieldNames, LAMBDA k : k \in keys)

\* mutant: the items are serialized in insertion order
json_dumps_insertion_order(items, sort_keys) == items

\* json.dumps(data, sort_keys=...): the items one after the other, by sorted
\* key when sort_keys is set and in the dict's own order otherwise
json_dumps(items, sort_keys) ==
    IF sort_keys
    THEN LET keys == SortedKeys({items[i][1] : i \in DOMAIN items})
         IN [n \in DOMAIN keys |->
                items[CHOOSE i \in DOMAIN items : items[i][1] = keys[n]]]
    ELSE items

\* hashlib.sha256(json.dumps(data, sort_keys=True).encode()).hexdigest() of
\* a dict with these items (line 416, lines 289-291)
hash_of_items(items) == <<"sha256", json_dumps(items, TRUE)>>

\* the content hash of a field mapping, whatever order its dict was filled in
content_hash(data) == hash_of_items(Items(data, SortedKeys(DOMAIN data)))

\* no <target_id>_last_hash.txt file
NoHash == <<>>

\* mutant: a target without a hash file is reported as changed
detect_changes_first_is_change(last_hash, new_hash) ==
    [changed |-> last_hash # new_hash, file |-> new_hash]

\* mutant: the hash file is read but never written
detect_changes_readonly(last_hash, new_hash) ==
    [changed |-> last_hash # NoHash /\ last_hash # new_hash, file |-> last_hash]

\* WebScraper._detect_changes: what it returns and the hash file it leaves
detect_changes(last_hash, new_hash) ==
    IF last_hash # NoHash
    THEN IF last_hash # new_hash
         THEN [changed |-> TRUE, file |-> new_hash]
         ELSE [changed |-> FALSE, file |-> last_hash]
    ELSE [changed |-> FALSE, file |-> new_hash]

(***************************************************************************)
(* ScrapedData.compare_with.  A ChangeSet is a function from the changed   *)
(* field names to records previous, current, change_type.                  *)
(***************************************************************************)
\* isinstance(v, (int, float))
IsNumber(v) == v[1] = "float"

\* mutant: the two comparisons are the wrong way round
detect_change_type_swapped(previous, current) ==
    IF IsNumber(previous) /\ IsNumber(current)
    THEN IF current[2] < previous[2] THEN "increased"
         ELSE IF current[2] > previous[2] THEN "decreased"
         ELSE "modified"
    ELSE "modified"

\* ScrapedData._detect_change_type
detect_change_type(previous, current) ==
    IF IsNumber(previous) /\ IsNumber(current)
    THEN IF current[2] > previous[2] THEN "increased"
         ELSE IF current[2] < previous[2] THEN "decreased"
         ELSE "modified"
    ELSE "modified"

\* mutant: every field present on both sides is reported
Differs_always(a, b) == TRUE

\* line 174: current_value != previous_value
Differs(a, b) == a # b

\* ScrapedData.compare_with: self.data is current, previous.data is previous
compare_with(current, previous) ==
    LET both == {k \in DOMAIN current \cap DOMAIN previous : Differs(current[k], previous[k])}
        added == DOMAIN current \ DOMAIN previous
        removed == DOMAIN previous \ DOMAIN current
    IN [k \in both \cup added \cup removed |->
           IF k \in both
           THEN [previous |-> previous[k], current |-> current[k],
                 change_type |-> detect_change_type(previous[k], current[k])]
           ELSE IF k \in added
                THEN [previous |-> NoneValue, current |-> current[k], change_type |-> "added"]
                ELSE [previous |-> previous[k], current |-> NoneValue,
                      change_type |-> "removed"]]

(***************************************************************************)
(* ProxyRotator.  proxies is the list of ProxyConfig in the order loaded;  *)
(* current_index is the 0-based index of the Python list, so the proxy it  *)
(* names is proxies[current_index + 1].  response_times is left out: the   *)
(* rotation never reads it.                                                *)
(***************************************************************************)
\* ProxyConfig(url=...): the dataclass defaults
ProxyConfig(url) ==
    [url |-> url, last_used |-> None, success_count |-> 0, fail_count |-> 0,
     blocked |-> FALSE]

\* the two placeholder proxies of _load_proxies
DefaultProxies == <<"http://proxy1.example.com:8080", "socks5://proxy2.example.com:1080">>

\* the proxy_list argument: None or a list of urls
NoList == [none |-> TRUE, urls |-> <<>>]
List(urls) == [none |-> FALSE, urls |-> urls]

\* ProxyRotator._load_proxies: 'if not proxy_list' is true of None and of []
load_proxies(proxy_list) ==
    LET urls == IF proxy_list.none \/ proxy_list.urls = <<>>
                THEN DefaultProxies
                ELSE proxy_list.urls
    IN [i \in 1..Len(urls) |-> ProxyConfig(urls[i])]

\* ProxyRotator.__init__
ProxyRotator(proxy_list) ==
    [proxies |-> load_proxies(proxy_list), current_index |-> 0]

\* line 188: proxy.last_used and datetime.now() - proxy.last_used > self.retry_after
RetryTimePassed(proxy, t) == proxy.last_used # None /\ t - proxy.last_used > retry_after

\* mutant: a blocked proxy is handed out like any other
StillBlocked_ignored(proxy, t) == FALSE

\* lines 187-192: the proxy is skipped
StillBlocked(proxy, t) == proxy.blocked /\ ~RetryTimePassed(proxy, t)

\* mutant: the search starts at the head of the list every time
get_proxy_loop_from_head(pr, attempts, t) ==
    LET free == {i \in 1..Len(pr.proxies) : ~(pr.proxies[i].blocked /\ ~RetryTimePassed(pr.proxies[i], t))}
    IN IF free = {}
       THEN [proxy |-> None, rotator |-> pr]
       ELSE LET i == CHOOSE j \in free : \A k \in free : j <= k
            IN [proxy |-> i,
                rotator |-> [pr EXCEPT !.proxies[i].blocked = FALSE,
                                       !.proxies[i].last_used = t]]

\* the while loop of get_proxy (lines 182-198)
RECURSIVE get_proxy_loop(_, _, _)
get_proxy_loop(pr, attempts, t) ==
    IF attempts >= Len(pr.proxies)
    THEN [proxy |-> None, rotator |-> pr]
    ELSE LET i == pr.current_index + 1
             next == [pr EXCEPT !.current_index = (pr.current_index + 1) % Len(pr.proxies)]
         IN IF StillBlocked(pr.proxies[i], t)
            THEN get_proxy_loop(next, attempts + 1, t)
            ELSE [proxy |-> i,
                  rotator |-> [next EXCEPT !.proxies[i].blocked =
                                               IF @ /\ RetryTimePassed(pr.proxies[i], t)
                                               THEN FALSE ELSE @,
                                           !.proxies[i].last_used = t]]

\* ProxyRotator.get_proxy: the index in proxies of the ProxyConfig returned
\* (None for None) and the rotator left behind
get_proxy(pr, t) ==
    IF pr.proxies = <<>> THEN [proxy |-> None, rotator |-> pr] ELSE get_proxy_loop(pr, 0, t)

\* ProxyRotator.mark_success
mark_success(pr, i) == [pr EXCEPT !.proxies[i].success_count = @ + 1]

\* ProxyRotator.mark_failure
mark_failure(pr, i, block) ==
    [pr EXCEPT !.proxies[i].fail_count = @ + 1,
               !.proxies[i].blocked = IF block \/ pr.proxies[i].fail_count + 1 > fail_limit
                                      THEN TRUE ELSE @]

(***************************************************************************)
(* State                                                                   *)
(***************************************************************************)
VARIABLES
    now,               \* time.time()
    circuit_breakers,  \* WebScraper.circuit_breakers: target id -> CircuitBreaker
    stealth_breaker,   \* a stealth_scraper.CircuitBreaker
    rate_limiter,      \* the RateLimiter: interval, burst, tokens, last_update
    lock,              \* RateLimiter._lock: asyncio.Lock (_locked, _waiters)
    cache,             \* the ResponseCache: max_size, ttl_seconds, mem, disk
    last_hash,         \* temp/<target_id>_last_hash.txt: target id -> hash
    proxy_rotator,     \* StealthScraper.proxy_rotator: proxies, current_index
    run,               \* each task's call of scrape_with_strategy: where it
                       \* stands, its metadata, the proxy its attempt holds
    proxyHist,         \* history: what the rotator was built with, and per
                       \* proxy the time of its last blocking failure
    compared,          \* stand-alone change detection: the last compare_with
    detected,          \* history, stand-alone change detection: per target,
                       \* the data of its last extraction and what
                       \* _detect_changes said of it
    extracted,         \* stand-alone extraction: the last call of
                       \* _extract_with_strategy, its arguments and its value
    built,             \* stand-alone extraction: the last document extracted,
                       \* the fetch path it came by and the ScrapedData built
    pc,                \* where each task stands
    tgt,               \* the target of the call a task is in
    wake,              \* when a task's asyncio.sleep is over
    result,            \* what the task's call returned
    touched,           \* history: what the call has used (limiter, cache, network)
    steps,             \* history: the steps the call has taken, in their order
    semaphore,         \* scrape_multiple_async: the asyncio.Semaphore
    batch,             \* scrape_multiple_async: its arguments, where it stands
                       \* and the list it returns
    atCall,            \* history: what held when the call was made
    hist,              \* history: per target, failures since the last success and
                       \*          the time of the last one
    calls,             \* stand-alone limiter: calls a caller has made
    acq,               \* history, stand-alone limiter: each caller's last acquire
    streak,            \* history, stand-alone limiter: back-to-back calls since full
    lastOp,            \* history, stand-alone cache: the last operation
    keyHist            \* history, stand-alone cache: per key, the last set and use

vars == <<now, circuit_breakers, stealth_breaker, rate_limiter, lock, cache, last_hash, proxy_rotator, run, proxyHist,
          compared, detected, extracted, built, pc, tgt, wake, result,
          touched, steps, semaphore, batch, atCall, hist, calls, acq, streak, lastOp, keyHist>>

breakerVars == <<circuit_breakers, hist>>
limiterVars == <<rate_limiter, lock>>
taskVars == <<pc, tgt, wake, result, touched, steps, atCall>>
cacheHist == <<lastOp, keyHist>>
aloneVars == <<calls, acq, streak, lastOp, keyHist>>
stealthVars == <<proxy_rotator, run, proxyHist>>
extractVars == <<extracted, built>>
changeVars == <<compared, detected, extractVars>>
batchVars == <<semaphore, batch>>
\* the state of the components the fetch engine's own actions leave alone
apartVars == <<stealthVars, changeVars, batchVars, stealth_breaker>>

\* ScrapingTarget.url and ScrapingTarget.headers of the two targets
TargetUrl(t) == IF t = "t1" THEN "u1" ELSE "u2"
TargetHeaders(t) == IF t = "t1" THEN "{}" ELSE "h"

\* ScrapedData.changes as the dataclass builds it (field(default_factory=dict)):
\* no call of the ScrapedData constructor in scraper.py passes changes
NoChanges == <<>>

NoResult ==
    [kind |-> "pending", from_cache |-> FALSE, errors |-> "", method |-> "",
     data |-> <<>>, hash_signature |-> NoHash, change_detected |-> FALSE,
     changes |-> NoChanges, extraction_success_rate |-> Percent(0, 1)]
\* return None
ReturnsNone == [NoResult EXCEPT !.kind = "None"]
\* a ScrapedData carrying extracted data
DataResult(fromCache, method, data, hash, changed, rate) ==
    [kind |-> "ScrapedData", from_cache |-> fromCache, errors |-> "", method |-> method,
     data |-> data, hash_signature |-> hash, change_detected |-> changed,
     changes |-> NoChanges, extraction_success_rate |-> rate]
\* a ScrapedData carrying an errors list
ErrorResult(e) ==
    [kind |-> "ScrapedData", from_cache |-> FALSE, errors |-> e, method |-> "",
     data |-> <<>>, hash_signature |-> NoHash, change_detected |-> FALSE,
     changes |-> NoChanges, extraction_success_rate |-> Percent(0, 1)]

\* WebScraper._extract_data after its loop (lines 413-438), e being what the
\* loop extracted: the ScrapedData returned and the hash file left behind
data_result(e, fromCache, last) ==
    LET hash == content_hash(e.data)
        d == detect_changes(last, hash)
    IN [result |-> DataResult(fromCache, IF fromCache THEN "cache" ELSE "basic",
                              e.data, hash, d.changed, e.extraction_success_rate),
        file |-> d.file]

\* WebScraper._extract_data (lines 383-438)
extract_data(doc, fromCache, last) == data_result(ExtractedFields(doc), fromCache, last)

\* the loop of _extract_data on each page the network serves
PageFields == [html \in Responses |-> ExtractedFields(Page(html))]

\* _extract_data on a page the network serves
extract_page(html, fromCache, last) == data_result(PageFields[html], fromCache, last)

\* line 302: extraction_success_rate=100.0
stealth_rate(data, total) == Percent(1, 1)

\* lines 285-307: the ScrapedData made of the data the stealth scraper returns,
\* the target having total selectors
stealth_result(data, total, last) ==
    LET hash == content_hash(data)
        d == detect_changes(last, hash)
    IN [result |-> DataResult(FALSE, "stealth", data, hash, d.changed,
                              stealth_rate(data, total)),
        file |-> d.file]

\* scrape_with_strategy is not running: pc is where the call stands, the
\* metadata fields are those of lines 297-302, proxy the index of the proxy
\* the attempt under way obtained, returned what the call returned; tried
\* and last are history: the strategies begun, and the strategy, proxy,
\* number of mark_success / mark_failure calls and outcome of the attempt that
\* ended last
NoAttempt == [strategy |-> "", proxy |-> None, marks |-> 0, outcome |-> ""]
NoRun ==
    [pc |-> "idle", attempts |-> 0, successful_strategy |-> "None", proxy_used |-> "None",
     errors |-> <<>>, proxy |-> None, returned |-> "", tried |-> <<>>,
     last |-> NoAttempt, runs |-> 0]
\* nothing blocked yet
NoProxyHist(proxy_list) ==
    [given |-> proxy_list,
     quarantined |-> [i \in 1..Len(load_proxies(proxy_list)) |-> None],
     served |-> <<>>]

\* compare_with has not been called; no extraction of the target yet
\* (extractions: none, one or several; previous: the data of the one before;
\* change_detected and changes: those of the ScrapedData built of the last one)
NoComparison == [called |-> FALSE, previous |-> <<>>, current |-> <<>>, changes |-> <<>>]
\* _extract_with_strategy has not been called; no document extracted yet
NoExtraction == [called |-> FALSE, field_name |-> "", found |-> Found("none", <<>>), value |-> NoneValue]
NoBuilt ==
    [called |-> FALSE, path |-> "", doc |-> <<>>, result |-> NoResult,
     warnings |-> {}, errors |-> {}]

NoDetection ==
    [extractions |-> "none", data |-> <<>>, previous |-> <<>>, change_detected |-> FALSE,
     changes |-> <<>>, order |-> <<>>, hash |-> <<>>, previous_hash |-> <<>>]

\* asyncio.Semaphore(value): _value and _waiters, a waiter being the task
\* that awaits the future and whether the future is done
Semaphore(value) == [value |-> value, waiters |-> <<>>]
\* scrape_multiple_async is not running
NoSemaphore == Semaphore(0)
NoBatch == [pc |-> "idle", targets |-> <<>>, max_concurrent |-> 0, stuck |-> "", valid_results |-> <<>>]

NoCall == [guarded |-> FALSE, trial |-> FALSE]
NoHist == [consec |-> 0, lastFail |-> None]
NoAcq == [k |-> 0, called |-> None, returned |-> None]
NoStreak == [start |-> None, n |-> 0, last |-> None, logged |-> FALSE, grants |-> <<>>]
NoKeyHist == [setAt |-> None, response |-> NoResponse, usedAt |-> None]
NoOp == [op |-> "none", key |-> <<>>, response |-> NoResponse, at |-> None, tier |-> "none"]

\* asyncio.Lock
FreeLock == [locked |-> FALSE, waiters |-> <<>>]
\* Lock.acquire's fast path: not locked and nobody waiting
LockIsFree(l) == ~l.locked /\ l.waiters = <<>>

Init ==
    /\ now = TimeStep
    /\ circuit_breakers = [t \in Targets |-> CircuitBreaker(failure_threshold, recovery_timeout)]
    /\ stealth_breaker = CircuitBreaker(failure_threshold, recovery_timeout)
    /\ rate_limiter = RateLimiter(rate_limit_delay, burst, TimeStep)
    /\ lock = FreeLock
    /\ cache = ResponseCache(max_size, cache_ttl)
    /\ last_hash = [t \in Targets |-> NoHash]
    /\ proxy_rotator = ProxyRotator(NoList)
    /\ run = [p \in Procs |-> NoRun]
    /\ proxyHist = NoProxyHist(NoList)
    /\ compared = NoComparison
    /\ detected = [t \in Targets |-> NoDetection]
    /\ extracted = NoExtraction
    /\ built = NoBuilt
    /\ pc = [p \in Procs |-> "idle"]
    /\ tgt = [p \in Procs |-> NoTarget]
    /\ wake = [p \in Procs |-> None]
    /\ result = [p \in Procs |-> NoResult]
    /\ touched = [p \in Procs |-> {}]
    /\ steps = [p \in Procs |-> <<>>]
    /\ semaphore = NoSemaphore
    /\ batch = NoBatch
    /\ atCall = [p \in Procs |-> NoCall]
    /\ hist = [t \in Targets |-> NoHist]
    /\ calls = [p \in Procs |-> 0]
    /\ acq = [p \in Procs |-> NoAcq]
    /\ streak = NoStreak
    /\ lastOp = NoOp
    /\ keyHist = [k \in CacheKeys |-> NoKeyHist]

(***************************************************************************)
(* WebScraper.scrape_target_async                                          *)
(***************************************************************************)
\* mutant: one breaker serves every target
breaker_key_shared(t) == "t1"

\* line 260: self.circuit_breakers[target.id], the defaultdict of line 175
\* being keyed by the target's id
breaker_key(t) == t

\* the steps of a cache hit (lines 272-275, then _extract_data: the
\* extraction loop, then _detect_changes), and of a miss
StepsOfLookup(hit) == IF hit THEN <<"cache", "extract", "detect">> ELSE <<"cache">>

\* lines 270-275, then the await of the fetch: the cache is consulted, a hit
\* returns the extraction of the cached body, a miss goes to the network;
\* before is what the task has done in this step already
CheckCache(p, t, before) ==
    LET g == CacheGet(cache, TargetUrl(t), TargetHeaders(t), now)
        e == extract_page(g.response, TRUE, last_hash[t])
    IN /\ cache' = g.cache
       /\ touched' = [touched EXCEPT ![p] = @ \cup {"limiter", "cache"}]
       /\ steps' = [steps EXCEPT ![p] = @ \o before \o StepsOfLookup(g.response # NoResponse)]
       /\ IF g.response # NoResponse
          THEN /\ pc' = [pc EXCEPT ![p] = "done"]
               /\ result' = [result EXCEPT ![p] = e.result]
               /\ last_hash' = [last_hash EXCEPT ![t] = e.file]
          ELSE /\ pc' = [pc EXCEPT ![p] = "fetching"]
               /\ UNCHANGED <<result, last_hash>>

\* RateLimiter.acquire from the moment the lock is held (lines 51-61): either
\* the token is there and the caller goes on to the cache at once, or the
\* caller sleeps holding the lock
EnterLimiter(p, t, waiters, before) ==
    LET rl == Replenish(rate_limiter, now)
    IN IF MustSleep(rl)
       THEN /\ rate_limiter' = rl
            /\ lock' = [locked |-> TRUE, waiters |-> waiters]
            /\ wake' = [wake EXCEPT ![p] = now + sleep_time(rl)]
            /\ pc' = [pc EXCEPT ![p] = "sleeping"]
            /\ touched' = [touched EXCEPT ![p] = @ \cup {"limiter"}]
            /\ steps' = [steps EXCEPT ![p] = @ \o before]
            /\ UNCHANGED <<cache, result, last_hash>>
       ELSE /\ rate_limiter' = TakeToken(rl)
            /\ lock' = [locked |-> FALSE, waiters |-> waiters]
            /\ UNCHANGED wake
            /\ CheckCache(p, t, before \o <<"limiter">>)

\* lines 260-268: the breaker is asked first; an open breaker returns None,
\* otherwise the limiter's lock is taken or queued for
CallBody(p, t) ==
    LET r == is_open(circuit_breakers[breaker_key(t)], now)
    IN /\ tgt' = [tgt EXCEPT ![p] = t]
       /\ circuit_breakers' = [circuit_breakers EXCEPT ![breaker_key(t)] = r.cb]
       /\ atCall' = [atCall EXCEPT ![p] =
              [guarded |-> /\ hist[t].consec >= failure_threshold
                           /\ now - hist[t].lastFail <= recovery_timeout,
               trial |-> ~r.open /\ r.cb.state = "half-open"]]
       /\ UNCHANGED <<now, hist, aloneVars>>
       /\ IF r.open
          THEN /\ pc' = [pc EXCEPT ![p] = "done"]
               /\ result' = [result EXCEPT ![p] = ReturnsNone]
               /\ steps' = [steps EXCEPT ![p] = <<"circuit">>]
               /\ UNCHANGED <<limiterVars, cache, last_hash, wake, touched>>
          ELSE IF LockIsFree(lock)
               THEN EnterLimiter(p, t, <<>>, <<"circuit">>)
               ELSE /\ lock' = [lock EXCEPT !.waiters = Append(@, p)]
                    /\ pc' = [pc EXCEPT ![p] = "waitlock"]
                    /\ steps' = [steps EXCEPT ![p] = <<"circuit">>]
                    /\ UNCHANGED <<rate_limiter, cache, last_hash, wake, result, touched>>

\* scrape_target_async is called by a task that is free
Call(p, t) ==
    /\ pc[p] = "idle"
    /\ CallBody(p, t)
    /\ UNCHANGED apartVars

\* Lock.acquire resumed: the released lock goes to the first waiter
ResumeBody(p) ==
    /\ pc[p] = "waitlock"
    /\ ~lock.locked
    /\ lock.waiters # <<>> /\ Head(lock.waiters) = p
    /\ EnterLimiter(p, tgt[p], Tail(lock.waiters), <<>>)
    /\ UNCHANGED <<now, breakerVars, tgt, atCall, aloneVars>>

Resume(p) == ResumeBody(p) /\ UNCHANGED apartVars

\* lines 58-61: asyncio.sleep is over, the token is taken, the lock released
WakeUpBody(p) ==
    /\ pc[p] = "sleeping"
    /\ now >= wake[p]
    /\ rate_limiter' = TakeToken(AfterSleep(rate_limiter))
    /\ lock' = [lock EXCEPT !.locked = FALSE]
    /\ wake' = [wake EXCEPT ![p] = None]
    /\ CheckCache(p, tgt[p], <<"limiter">>)
    /\ UNCHANGED <<now, breakerVars, tgt, atCall, aloneVars>>

WakeUp(p) == WakeUpBody(p) /\ UNCHANGED apartVars

\* the page the network serves
Fetched == "r1"

\* WebScraper.use_stealth: the stealth ladder is tried first, and every
\* outcome but "stealth" is that of the basic request made after the ladder
\* has returned no data
use_stealth == TRUE

\* what the fetch of lines 277-373 can end in
Outcomes == {"stealth", "200", "200 cache write fails", "HTTP error", "timeout", "exception"}

Succeeded(h) == [h EXCEPT !.consec = 0]
Failed(h, t) == [h EXCEPT !.consec = @ + 1, !.lastFail = t]

\* a fetch that ended well followed by an extraction that raised: a 200 whose
\* _extract_data takes its outer except (lines 440-448)
ExtractionRaises == "200 extraction raises"
\* the ends of a fetch, that one included
FaultOutcomes == Outcomes \cup {ExtractionRaises}

\* mutant: a timeout is not counted as a failure
BreakerAfter_timeout_unrecorded(cb, o, t) ==
    CASE o \in {"stealth", "200", ExtractionRaises} -> call_succeeded(cb)
      [] o = "200 cache write fails" -> call_failed(call_succeeded(cb), t)
      [] o = "timeout" -> cb
      [] OTHER -> call_failed(cb, t)

\* the breaker after the fetch: call_succeeded on stealth data or HTTP 200,
\* call_failed in every except branch and on another status
BreakerAfter(cb, o, t) ==
    CASE o \in {"stealth", "200", ExtractionRaises} -> call_succeeded(cb)
      [] o = "200 cache write fails" -> call_failed(call_succeeded(cb), t)
      [] OTHER -> call_failed(cb, t)

HistAfter(h, o, t) ==
    CASE o \in {"stealth", "200", ExtractionRaises} -> Succeeded(h)
      [] o = "200 cache write fails" -> Failed(Succeeded(h), t)
      [] OTHER -> Failed(h, t)

\* the cache after the fetch: set on HTTP 200 only (line 338); when the
\* write of the .pkl file raises, the memory tier has been written already
CacheAfter(c, tg, o, t) ==
    CASE o \in {"200", ExtractionRaises} ->
            CacheSet(c, TargetUrl(tg), Fetched, TargetHeaders(tg), t)
      [] o = "200 cache write fails" ->
            MemSet(c, get_cache_key(TargetUrl(tg), TargetHeaders(tg)), Fetched, t)
      [] OTHER -> c

\* the ScrapedData returned and the hash file left behind
ResultAfter(o, last) ==
    CASE o = "stealth" ->
             stealth_result(StealthData(Fetched), Cardinality(DOMAIN Page(Fetched)), last)
      [] o = "200" -> extract_page(Fetched, FALSE, last)
      [] o = "HTTP error" -> [result |-> ErrorResult("HTTP status"), file |-> last]
      [] o = "timeout" -> [result |-> ErrorResult("Request timeout"), file |-> last]
      [] o = ExtractionRaises ->
             [result |-> ErrorResult("Critical extraction error: str(e)"), file |-> last]
      [] OTHER -> [result |-> ErrorResult("str(e)"), file |-> last]

\* mutant: the hash is compared before the data are extracted
StepsOfFetch_detect_first(o, emptied) ==
    IF o \in {"stealth", "200"} THEN <<"fetch", "detect", "extract">> ELSE <<"fetch">>

\* the steps of a fetch: the request, then, of a body that arrived, the
\* extraction (in the strategy for the stealth ladder, lines 397-410 for the
\* basic request) and _detect_changes (lines 293, 419); emptied: an earlier
\* strategy of the ladder had its page and extracted no field from it, so the
\* next request followed (stealth_scraper.py lines 304-316, 362)
StepsOfFetch(o, emptied) ==
    (IF emptied THEN <<"fetch", "extract">> ELSE <<>>)
    \o (CASE o \in {"stealth", "200"} -> <<"fetch", "extract", "detect">>
          [] o = ExtractionRaises -> <<"fetch", "extract">>
          [] OTHER -> <<"fetch">>)

\* the fetch ends: lines 285-307 (stealth), 333-353 (basic), 355-373 (except)
FetchDoneBody(p, o, emptied) ==
    /\ pc[p] = "fetching"
    /\ circuit_breakers' = [circuit_breakers EXCEPT ![breaker_key(tgt[p])] = BreakerAfter(@, o, now)]
    /\ hist' = [hist EXCEPT ![tgt[p]] = HistAfter(@, o, now)]
    /\ cache' = CacheAfter(cache, tgt[p], o, now)
    /\ result' = [result EXCEPT ![p] = ResultAfter(o, last_hash[tgt[p]]).result]
    /\ last_hash' = [last_hash EXCEPT ![tgt[p]] = ResultAfter(o, @).file]
    /\ touched' = [touched EXCEPT ![p] = @ \cup {"network"}]
    /\ steps' = [steps EXCEPT ![p] = @ \o StepsOfFetch(o, emptied)]
    /\ pc' = [pc EXCEPT ![p] = "done"]
    /\ UNCHANGED <<now, limiterVars, tgt, wake, atCall, aloneVars>>

FetchDone(p, o) == (\E emptied \in BOOLEAN : FetchDoneBody(p, o, emptied)) /\ UNCHANGED apartVars

\* the caller takes the result; the task is free for the next call
Return(p) ==
    /\ UNCHANGED apartVars
    /\ pc[p] = "done"
    /\ pc' = [pc EXCEPT ![p] = "idle"]
    /\ tgt' = [tgt EXCEPT ![p] = NoTarget]
    /\ result' = [result EXCEPT ![p] = NoResult]
    /\ touched' = [touched EXCEPT ![p] = {}]
    /\ steps' = [steps EXCEPT ![p] = <<>>]
    /\ atCall' = [atCall EXCEPT ![p] = NoCall]
    /\ UNCHANGED <<now, breakerVars, limiterVars, cache, last_hash, wake, aloneVars>>

\* wall-clock time passes
AdvanceTime ==
    /\ UNCHANGED apartVars
    /\ now + TimeStep <= MaxTime
    /\ now' = now + TimeStep
    /\ UNCHANGED <<breakerVars, limiterVars, cache, last_hash, taskVars, aloneVars>>

\* the calls of this specification are all for one target, by two tasks
Next ==
    \/ \E p \in Procs : Call(p, "t1")
    \/ \E p \in Procs : Resume(p)
    \/ \E p \in Procs : WakeUp(p)
    \/ \E p \in Procs, o \in Outcomes : FetchDone(p, o)
    \/ \E p \in Procs : Return(p)
    \/ AdvanceTime

Spec == Init /\ [][Next]_vars

(***************************************************************************)
(* Circuit breaker properties (specification Spec)                         *)
(***************************************************************************)
\* the tasks inside a call for target t that the breaker let through
InFlight(t) == {p \in Procs : tgt[p] = t /\ pc[p] \in {"waitlock", "sleeping", "fetching"}}

\* C1: once failure_threshold fetches of a target have failed in a row, its
\* breaker is open, and a call made before recovery_timeout has elapsed
\* since the last failure returns None at once, having used neither the
\* rate limiter nor the cache nor the network.
C1_OpenShortCircuits ==
    /\ \A t \in Targets :
          (/\ hist[t].consec >= failure_threshold
           /\ now - hist[t].lastFail <= recovery_timeout)
          => circuit_breakers[t].state = "open"
    /\ \A p \in Procs :
          atCall[p].guarded
          => pc[p] = "done" /\ result[p] = ReturnsNone /\ touched[p] = {}

\* a call was made to a target whose breaker had just opened, and was rejected
C1_Witness ==
    \E p \in Procs : atCall[p].guarded /\ pc[p] = "done" /\ result[p].kind = "None"

\* C2: while the breaker is half-open and its trial call has not reported,
\* every further call for the same target is rejected: at most one call is
\* let through.
C2_OneTrial ==
    \A t \in Targets :
        circuit_breakers[t].state = "half-open"
        => Cardinality({p \in InFlight(t) : atCall[p].trial}) <= 1

\* C3: a half-open breaker is closed with failure_count 0 by a trial that
\* succeeds, and is opened again by a trial that fails, with
\* last_failure_time the time of that failure, so that no call is let
\* through until recovery_timeout has elapsed once more.
C3_TrialOutcome ==
    [][\A p \in Procs :
         (/\ pc[p] = "fetching" /\ pc'[p] = "done"
          /\ circuit_breakers[tgt[p]].state = "half-open")
         => LET t == tgt[p]
                cb == circuit_breakers'[t]
            IN /\ hist'[t].consec = 0
                  => cb.state = "closed" /\ cb.failure_count = 0
               /\ hist'[t].consec > hist[t].consec
                  => /\ cb.state = "open"
                     /\ cb.last_failure_time = now
                     /\ \A d \in 0..recovery_timeout : is_open(cb, now + d).open]_vars

\* a trial call has failed and the breaker is open again
C3_Witness ==
    \E p \in Procs :
        /\ atCall[p].trial /\ pc[p] = "done" /\ result[p].errors # ""
        /\ circuit_breakers[tgt[p]].state = "open"
        /\ hist[tgt[p]].consec = failure_threshold + 1

\* the failure counter and the state of every breaker after a step: the
\* counter is the number of failures in a row, n failures in a row open the
\* breaker, a fetch that returns data leaves it closed at zero
ConsistentAt(n) ==
    \A t \in Targets :
        LET cb == circuit_breakers'[t]
        IN /\ cb.failure_count = hist'[t].consec
           /\ (hist'[t] # hist[t] /\ hist'[t].consec >= n) => cb.state = "open"
           /\ \A p \in Procs :
                 (/\ pc[p] = "fetching" /\ pc'[p] = "done" /\ tgt[p] = t
                  /\ result'[p].errors = "")
                 => cb.failure_count = 0 /\ cb.state = "closed"

\* C4 as stated: three failed fetches in a row open the breaker.
C4_ThreeFailuresOpen == [][ConsistentAt(3)]_vars

\* C4, amended: the breaker's failure counter is the number of failed
\* fetches in a row; failure_threshold (five) of them open the breaker, and
\* a fetch over the network that returns data resets the counter to zero and
\* the state to closed.
C4_ThresholdFailuresOpen == [][ConsistentAt(failure_threshold)]_vars

\* the fifth failure in a row has opened the breaker
C4_Witness ==
    \E t \in Targets :
        /\ hist[t].consec = failure_threshold
        /\ circuit_breakers[t].state = "open"
        /\ circuit_breakers[t].failure_count = failure_threshold

\* C5: a call rejected by the open breaker changes nothing: the breaker's
\* failure_count and last_failure_time, the failure history (call_failed is
\* not invoked), the limiter's tokens and the cache are as before, nothing
\* was fetched, and what is returned is None, not a record with errors.
C5_RejectionIsNotAFailure ==
    [][\A p \in Procs :
         (/\ pc[p] = "idle" /\ pc'[p] # "idle"
          /\ circuit_breakers[tgt'[p]].state = "open"
          /\ now - circuit_breakers[tgt'[p]].last_failure_time
                <= circuit_breakers[tgt'[p]].recovery_timeout)
         => /\ pc'[p] = "done"
            /\ result'[p] = ReturnsNone
            /\ touched'[p] = {}
            /\ circuit_breakers' = circuit_breakers
            /\ hist' = hist
            /\ rate_limiter' = rate_limiter
            /\ lock' = lock
            /\ cache' = cache]_vars

\* a call was rejected some time after the failure that opened the breaker
C5_Witness ==
    \E p \in Procs :
        /\ pc[p] = "done" /\ result[p] = ReturnsNone
        /\ circuit_breakers[tgt[p]].state = "open"
        /\ now > circuit_breakers[tgt[p]].last_failure_time

(***************************************************************************)
(* Cache hits and the stealth fallback (specification Spec)                *)
(***************************************************************************)
\* the ScrapedData and the hash file that extraction, hashing and change
\* detection make of a body, given the hash file found
Processed(p, html, before, after) ==
    LET data == ExtractedData(html)
    IN /\ result'[p].kind = "ScrapedData"
       /\ result'[p].data = data
       /\ result'[p].hash_signature = content_hash(data)
       /\ result'[p].change_detected = (before # NoHash /\ before # content_hash(data))
       /\ after = content_hash(data)

\* C12: a call served from the cache does not touch the network, and its
\* result carries the data extracted from the cached body, the hash of that
\* data and the change_detected that the hash file gives, the hash file being
\* updated, exactly as the result of a body fetched with status 200 does.
C12_CacheHitIsExtracted ==
    [][\A p \in Procs :
         /\ (pc[p] # "done" /\ pc'[p] = "done" /\ result'[p].from_cache)
            => LET t == tgt'[p]
                   g == CacheGet(cache, TargetUrl(t), TargetHeaders(t), now)
               IN /\ g.response # NoResponse
                  /\ "network" \notin touched'[p]
                  /\ Processed(p, g.response, last_hash[t], last_hash'[t])
         /\ (pc[p] = "fetching" /\ pc'[p] = "done" /\ result'[p].method = "basic")
            => Processed(p, Fetched, last_hash[tgt[p]], last_hash'[tgt[p]])]_vars

\* a call was served from the cache and reports a change: the hash file held
\* the hash of another extraction
C12_Witness ==
    \E p \in Procs :
        /\ pc[p] = "done" /\ result[p].from_cache /\ result[p].change_detected
        /\ "network" \notin touched[p]
        /\ last_hash[tgt[p]] = result[p].hash_signature

\* a task's call has ended in a ScrapedData fetched over the network, by
\* the stealth ladder or by the basic request
FetchedOverNetwork(q) ==
    /\ pc[q] = "done"
    /\ "network" \in touched[q]
    /\ result[q].kind = "ScrapedData" /\ result[q].errors = ""

\* C37: once a call has fetched a target over the network with success, by
\* the stealth ladder or by the basic request, a later call for the same URL
\* and headers within the TTL (every time of this specification is) finds
\* the page in the cache: it returns from_cache = true and makes no request.
C37_RefetchServedFromCache ==
    [][\A p, q \in Procs :
         (/\ p # q
          /\ FetchedOverNetwork(q)
          /\ tgt'[p] = tgt[q]
          /\ "cache" \notin touched[p] /\ "cache" \in touched'[p])
         => /\ pc'[p] = "done"
            /\ result'[p].from_cache
            /\ "network" \notin touched'[p]]_vars

\* C14: when every strategy of the ladder has failed, the target's breaker
\* records a failure and the call returns a ScrapedData whose errors are the
\* ladder's per-strategy errors.
C14_LadderFailureIsTypedFailure ==
    [][\A p \in Procs :
         (/\ use_stealth
          /\ pc[p] = "fetching" /\ pc'[p] = "done"
          /\ result'[p].method # "stealth")
         => /\ hist'[tgt[p]].consec = hist[tgt[p]].consec + 1
            /\ result'[p].kind = "ScrapedData"
            /\ result'[p].errors = "stealth_metadata['errors']"]_vars

\* C21: in every ScrapedData that scrape_target_async returns,
\* change_detected is true exactly when changes is not empty.
C21_ChangeDetectedIffChanges ==
    \A p \in Procs :
        (pc[p] = "done" /\ result[p].kind = "ScrapedData")
        => (result[p].change_detected <=> result[p].changes # NoChanges)

\* the step a step of the pipeline comes straight after: the circuit check
\* opens the call, the limiter follows the circuit check, the cache lookup the
\* limiter, a request the lookup or the extraction that found nothing, the
\* extraction a body (cached or fetched), the change detection the extraction
ComesAfter(step) ==
    CASE step = "circuit" -> {}
      [] step = "limiter" -> {"circuit"}
      [] step = "cache"   -> {"limiter"}
      [] step = "fetch"   -> {"cache", "extract"}
      [] step = "extract" -> {"cache", "fetch"}
      [] step = "detect"  -> {"extract"}

\* a history of steps in which every step follows the finished step before it
Sequential(s) ==
    \A i \in 1..Len(s) :
        /\ IF i = 1 THEN ComesAfter(s[i]) = {} ELSE s[i - 1] \in ComesAfter(s[i])
        /\ s[i] \in {"circuit", "limiter", "cache"} => \A j \in 1..Len(s) : s[j] = s[i] => j = i
        /\ s[i] = "detect" => i = Len(s)

NextFaults ==
    \/ \E p \in Procs : Call(p, "t1")
    \/ \E p \in Procs : Resume(p)
    \/ \E p \in Procs : WakeUp(p)
    \/ \E p \in Procs, o \in FaultOutcomes : FetchDone(p, o)
    \/ \E p \in Procs : Return(p)
    \/ AdvanceTime

SpecFaults == Init /\ [][NextFaults]_vars

\* the errors lists of the fetch failures: another status (line 351), a
\* timeout (line 361), any other exception (line 371)
FetchErrors == {"HTTP status", "Request timeout", "str(e)"}

\* C31: the fetch of scrape_target_async always ends in a ScrapedData, which
\* either carries the data of a success or an errors list that describes the
\* failure (a timeout, another exception, a status other than 200, an
\* extraction that raised); each fetch failure, the timeout like the others,
\* is one call of call_failed on the breaker of the target
C31_FailuresAreTypedAndRecordedOnce ==
    [][\A p \in Procs :
        (pc[p] = "fetching" /\ pc'[p] = "done")
        => LET cb == circuit_breakers[tgt[p]]
               after == circuit_breakers'[tgt[p]]
           IN /\ result'[p].kind = "ScrapedData"
              /\ result'[p].errors = "" => result'[p].method \in {"stealth", "basic"}
              /\ result'[p].errors # ""
                 => result'[p].errors \in FetchErrors \cup {"Critical extraction error: str(e)"}
              /\ result'[p].errors \in FetchErrors
                 => /\ after \in {call_failed(cb, now), call_failed(call_succeeded(cb), now)}
                    /\ hist'[tgt[p]].consec \in {hist[tgt[p]].consec + 1, 1}
                    /\ hist'[tgt[p]].lastFail = now]_vars

\* C31 witness: one call has ended in a timeout that the breaker has counted,
\* another in an extraction that raised
C31_Witness ==
    \E p, q \in Procs :
        /\ pc[p] = "done" /\ result[p].errors = "Request timeout"
        /\ pc[q] = "done" /\ result[q].errors = "Critical extraction error: str(e)"
        /\ hist[tgt[p]].lastFail # None

(***************************************************************************)
(* RateLimiter alone: two callers, each making MaxCalls calls of acquire() *)
(* on one limiter; rate and burst are the constructor's arguments.         *)
(***************************************************************************)
\* the largest 1 / rate, in seconds, and the largest burst tried
MaxInterval == 2
MaxBurst == 2

InitRL ==
    /\ now = 1
    /\ rate_limiter \in {RateLimiter(i, b, 1) : i \in 1..MaxInterval, b \in 1..MaxBurst}
    /\ lock = FreeLock
    /\ circuit_breakers = [t \in Targets |-> CircuitBreaker(failure_threshold, recovery_timeout)]
    /\ stealth_breaker = CircuitBreaker(failure_threshold, recovery_timeout)
    /\ cache = ResponseCache(max_size, cache_ttl)
    /\ last_hash = [t \in Targets |-> NoHash]
    /\ proxy_rotator = ProxyRotator(NoList)
    /\ run = [p \in Procs |-> NoRun]
    /\ proxyHist = NoProxyHist(NoList)
    /\ compared = NoComparison
    /\ detected = [t \in Targets |-> NoDetection]
    /\ extracted = NoExtraction
    /\ built = NoBuilt
    /\ pc = [p \in Procs |-> "idle"]
    /\ tgt = [p \in Procs |-> NoTarget]
    /\ wake = [p \in Procs |-> None]
    /\ result = [p \in Procs |-> NoResult]
    /\ touched = [p \in Procs |-> {}]
    /\ steps = [p \in Procs |-> <<>>]
    /\ semaphore = NoSemaphore
    /\ batch = NoBatch
    /\ atCall = [p \in Procs |-> NoCall]
    /\ hist = [t \in Targets |-> NoHist]
    /\ calls = [p \in Procs |-> 0]
    /\ acq = [p \in Procs |-> NoAcq]
    /\ streak = NoStreak
    /\ lastOp = NoOp
    /\ keyHist = [k \in CacheKeys |-> NoKeyHist]

\* lines 51-61 with the lock held: the token is there and acquire returns, or
\* the caller sleeps holding the lock
RLEnter(c, waiters) ==
    LET rl == Replenish(rate_limiter, now)
    IN IF MustSleep(rl)
       THEN /\ rate_limiter' = rl
            /\ lock' = [locked |-> TRUE, waiters |-> waiters]
            /\ wake' = [wake EXCEPT ![c] = now + sleep_time(rl)]
            /\ pc' = [pc EXCEPT ![c] = "sleeping"]
       ELSE /\ rate_limiter' = TakeToken(rl)
            /\ lock' = [locked |-> FALSE, waiters |-> waiters]
            /\ pc' = [pc EXCEPT ![c] = "acquired"]
            /\ UNCHANGED wake

\* back-to-back calls.  The bucket is full when nothing was granted yet, or
\* when the last grant is at least burst / rate seconds ago; a call that
\* finds it full and the lock free is the first of a run, and a call made at
\* the same instant is the next of the run
BucketIsFull ==
    \/ streak.last = None
    \/ now - streak.last >= rate_limiter.burst * rate_limiter.interval

StreakAfter ==
    IF LockIsFree(lock) /\ BucketIsFull
    THEN [streak EXCEPT !.start = now, !.n = 1]
    ELSE IF streak.start = now
         THEN [streak EXCEPT !.n = @ + 1]
         ELSE [streak EXCEPT !.start = None, !.n = 0]

\* acquire() returns now; where the grants are logged, the time joins the
\* times of the grants so far
Granted(st) == [st EXCEPT !.last = now, !.grants = IF st.logged THEN Append(@, now) ELSE @]

\* acquire() is called (line 48-50): the lock is taken or queued for
Acquire(c) ==
    /\ UNCHANGED apartVars
    /\ pc[c] = "idle"
    /\ calls[c] < MaxCalls
    /\ calls' = [calls EXCEPT ![c] = @ + 1]
    /\ IF LockIsFree(lock)
       THEN /\ RLEnter(c, <<>>)
            /\ streak' = IF pc'[c] = "acquired" THEN Granted(StreakAfter) ELSE StreakAfter
            /\ acq' = [acq EXCEPT ![c] =
                   [k |-> StreakAfter.n, called |-> now,
                    returned |-> IF pc'[c] = "acquired" THEN now ELSE None]]
       ELSE /\ lock' = [lock EXCEPT !.waiters = Append(@, c)]
            /\ pc' = [pc EXCEPT ![c] = "waitlock"]
            /\ streak' = StreakAfter
            /\ acq' = [acq EXCEPT ![c] = [k |-> StreakAfter.n, called |-> now, returned |-> None]]
            /\ UNCHANGED <<rate_limiter, wake>>
    /\ UNCHANGED <<now, breakerVars, last_hash, cache, tgt, result, touched, steps, atCall, cacheHist>>

\* Lock.acquire resumed: the released lock goes to the first waiter
RLResume(c) ==
    /\ UNCHANGED apartVars
    /\ pc[c] = "waitlock"
    /\ ~lock.locked
    /\ lock.waiters # <<>> /\ Head(lock.waiters) = c
    /\ RLEnter(c, Tail(lock.waiters))
    /\ acq' = [acq EXCEPT ![c].returned = IF pc'[c] = "acquired" THEN now ELSE None]
    /\ streak' = IF pc'[c] = "acquired" THEN Granted(streak) ELSE streak
    /\ UNCHANGED <<now, breakerVars, last_hash, cache, tgt, result, touched, steps, atCall, calls, cacheHist>>

\* mutant: the sleeper returns without releasing the lock
RLWake_keeps_lock(c) ==
    /\ UNCHANGED apartVars
    /\ pc[c] = "sleeping"
    /\ now >= wake[c]
    /\ rate_limiter' = TakeToken(AfterSleep(rate_limiter))
    /\ wake' = [wake EXCEPT ![c] = None]
    /\ pc' = [pc EXCEPT ![c] = "acquired"]
    /\ acq' = [acq EXCEPT ![c].returned = now]
    /\ streak' = Granted(streak)
    /\ UNCHANGED <<now, lock, breakerVars, last_hash, cache, tgt, result, touched, steps, atCall, calls, cacheHist>>

\* lines 58-61: asyncio.sleep is over, the token is taken, the lock released
RLWake(c) ==
    /\ UNCHANGED apartVars
    /\ pc[c] = "sleeping"
    /\ now >= wake[c]
    /\ rate_limiter' = TakeToken(AfterSleep(rate_limiter))
    /\ lock' = [lock EXCEPT !.locked = FALSE]
    /\ wake' = [wake EXCEPT ![c] = None]
    /\ pc' = [pc EXCEPT ![c] = "acquired"]
    /\ acq' = [acq EXCEPT ![c].returned = now]
    /\ streak' = Granted(streak)
    /\ UNCHANGED <<now, breakerVars, last_hash, cache, tgt, result, touched, steps, atCall, calls, cacheHist>>

\* acquire() has returned; the caller may call again
RLReturn(c) ==
    /\ UNCHANGED apartVars
    /\ pc[c] = "acquired"
    /\ pc' = [pc EXCEPT ![c] = "idle"]
    /\ acq' = [acq EXCEPT ![c] = NoAcq]
    /\ UNCHANGED <<now, breakerVars, last_hash, limiterVars, cache, tgt, wake, result, touched, steps, atCall,
                   calls, streak, cacheHist>>

\* a second passes; the clock stops at MaxTick unless a sleeper waits for it
Tick ==
    /\ UNCHANGED apartVars
    /\ now < MaxTick \/ \E c \in Procs : pc[c] = "sleeping" /\ wake[c] > now
    /\ now' = now + 1
    /\ UNCHANGED <<breakerVars, last_hash, limiterVars, cache, taskVars, aloneVars>>

NextRL ==
    \/ \E c \in Procs : Acquire(c)
    \/ \E c \in Procs : RLResume(c)
    \/ \E c \in Procs : RLWake(c)
    \/ \E c \in Procs : RLReturn(c)
    \/ Tick

SpecRL == InitRL /\ [][NextRL]_vars

\* the event loop runs every task that is ready and every timer that is due
SpecRLFair ==
    /\ SpecRL
    /\ WF_vars(Tick)
    /\ \A c \in Procs : WF_vars(RLResume(c)) /\ WF_vars(RLWake(c))

\* C6: from a full bucket, of burst + 1 calls of acquire() made at the same
\* instant the first burst return at once and the one after them returns no
\* sooner than 1 / rate seconds later.
C6_BurstThenDelay ==
    \A c \in Procs :
        /\ acq[c].k \in 1..rate_limiter.burst
           => pc[c] = "acquired" /\ acq[c].returned = acq[c].called
        /\ acq[c].k = rate_limiter.burst + 1
           => \/ pc[c] = "sleeping" /\ wake[c] >= acq[c].called + rate_limiter.interval
              \/ /\ pc[c] = "acquired"
                 /\ acq[c].returned >= acq[c].called + rate_limiter.interval

\* the call after the burst has returned, after its delay
C6_Witness ==
    \E c \in Procs :
        /\ acq[c].k = rate_limiter.burst + 1
        /\ pc[c] = "acquired"
        /\ acq[c].returned > acq[c].called

\* the same limiter and callers, the time of every grant being logged
InitRLLogged ==
    /\ now = 1
    /\ rate_limiter \in {RateLimiter(i, b, 1) : i \in 1..MaxInterval, b \in 1..MaxBurst}
    /\ lock = FreeLock
    /\ circuit_breakers = [t \in Targets |-> CircuitBreaker(failure_threshold, recovery_timeout)]
    /\ stealth_breaker = CircuitBreaker(failure_threshold, recovery_timeout)
    /\ cache = ResponseCache(max_size, cache_ttl)
    /\ last_hash = [t \in Targets |-> NoHash]
    /\ proxy_rotator = ProxyRotator(NoList)
    /\ run = [p \in Procs |-> NoRun]
    /\ proxyHist = NoProxyHist(NoList)
    /\ compared = NoComparison
    /\ detected = [t \in Targets |-> NoDetection]
    /\ extracted = NoExtraction
    /\ built = NoBuilt
    /\ pc = [p \in Procs |-> "idle"]
    /\ tgt = [p \in Procs |-> NoTarget]
    /\ wake = [p \in Procs |-> None]
    /\ result = [p \in Procs |-> NoResult]
    /\ touched = [p \in Procs |-> {}]
    /\ steps = [p \in Procs |-> <<>>]
    /\ semaphore = NoSemaphore
    /\ batch = NoBatch
    /\ atCall = [p \in Procs |-> NoCall]
    /\ hist = [t \in Targets |-> NoHist]
    /\ calls = [p \in Procs |-> 0]
    /\ acq = [p \in Procs |-> NoAcq]
    /\ streak = [NoStreak EXCEPT !.logged = TRUE]
    /\ lastOp = NoOp
    /\ keyHist = [k \in CacheKeys |-> NoKeyHist]

SpecRLLogged == InitRLLogged /\ [][NextRL]_vars

\* C35: of the grants of acquire(), no more than burst + rate * T fall in an
\* interval of length T: for any two grants, the number of grants from the
\* one to the other is at most burst plus rate times the time between them
\* (both sides multiplied by 1 / rate)
C35_RateBound ==
    LET grants == streak.grants
    IN \A i, j \in DOMAIN grants :
           i <= j => (j - i + 1) * rate_limiter.interval
                        <= rate_limiter.burst * rate_limiter.interval + (grants[j] - grants[i])

\* C36: whenever the lock of the limiter is free, tokens is between 0 and
\* burst
C36_TokensWithinBounds ==
    ~lock.locked
    => /\ rate_limiter.tokens >= 0
       /\ rate_limiter.tokens <= rate_limiter.burst * rate_limiter.interval

\* C36 witness: a call that had to sleep has returned and released the lock,
\* leaving the bucket empty
C36_Witness ==
    /\ ~lock.locked
    /\ \E c \in Procs :
          /\ pc[c] = "acquired"
          /\ acq[c].returned > acq[c].called
    /\ rate_limiter.tokens = 0

\* C7: every call of acquire() returns in the end, whatever the callers'
\* interleaving: none waits for the lock or sleeps for ever.
C7_AcquireReturns ==
    \A c \in Procs : (pc[c] \in {"waitlock", "sleeping"}) ~> (pc[c] = "acquired")

\* a caller that queued for the lock behind a sleeper has returned
C7_Witness ==
    \E c \in Procs :
        /\ pc[c] = "acquired"
        /\ acq[c].returned > acq[c].called
        /\ \E d \in Procs \ {c} : calls[d] > 0 /\ pc[d] = "idle" /\ calls[c] = MaxCalls

(***************************************************************************)
(* ResponseCache alone: get and set on one cache, max_size and ttl_seconds *)
(* being the constructor's arguments, the cache directory empty at first.  *)
(***************************************************************************)
\* the max_size and the ttl_seconds the cache is built with, and the last
\* second of the cache's clock
MaxSize == 2
MaxTtl == 2
MaxCacheTime == 4

\* the (url, headers) arguments tried: three keys, one reached in two ways
Requests == {<<"u1", "None">>, <<"u1", "{}">>, <<"u1", "h">>, <<"u2", "None">>}

InitCache ==
    /\ now = 1
    /\ cache = ResponseCache(MaxSize, MaxTtl)
    /\ last_hash = [t \in Targets |-> NoHash]
    /\ proxy_rotator = ProxyRotator(NoList)
    /\ run = [p \in Procs |-> NoRun]
    /\ proxyHist = NoProxyHist(NoList)
    /\ compared = NoComparison
    /\ detected = [t \in Targets |-> NoDetection]
    /\ extracted = NoExtraction
    /\ built = NoBuilt
    /\ rate_limiter = RateLimiter(rate_limit_delay, burst, 1)
    /\ lock = FreeLock
    /\ circuit_breakers = [t \in Targets |-> CircuitBreaker(failure_threshold, recovery_timeout)]
    /\ stealth_breaker = CircuitBreaker(failure_threshold, recovery_timeout)
    /\ pc = [p \in Procs |-> "idle"]
    /\ tgt = [p \in Procs |-> NoTarget]
    /\ wake = [p \in Procs |-> None]
    /\ result = [p \in Procs |-> NoResult]
    /\ touched = [p \in Procs |-> {}]
    /\ steps = [p \in Procs |-> <<>>]
    /\ semaphore = NoSemaphore
    /\ batch = NoBatch
    /\ atCall = [p \in Procs |-> NoCall]
    /\ hist = [t \in Targets |-> NoHist]
    /\ calls = [p \in Procs |-> 0]
    /\ acq = [p \in Procs |-> NoAcq]
    /\ streak = NoStreak
    /\ lastOp = NoOp
    /\ keyHist = [k \in CacheKeys |-> NoKeyHist]

\* cache.get(url, headers)
Get(url, headers) ==
    LET g == CacheGet(cache, url, headers, now)
        key == get_cache_key(url, headers)
    IN /\ cache' = g.cache
       /\ UNCHANGED apartVars
       /\ lastOp' = [op |-> "get", key |-> key, response |-> g.response, at |-> now,
                     tier |-> ServedFrom(cache, url, headers, now)]
       /\ keyHist' = IF g.response # NoResponse
                     THEN [keyHist EXCEPT ![key].usedAt = now]
                     ELSE keyHist
       /\ UNCHANGED <<now, breakerVars, last_hash, limiterVars, taskVars, calls, acq, streak>>

\* cache.set(url, response, headers)
Set(url, response, headers) ==
    LET key == get_cache_key(url, headers)
    IN /\ cache' = CacheSet(cache, url, response, headers, now)
       /\ UNCHANGED apartVars
       /\ lastOp' = [op |-> "set", key |-> key, response |-> response, at |-> now,
                     tier |-> "none"]
       /\ keyHist' = [keyHist EXCEPT ![key] =
                         [setAt |-> now, response |-> response, usedAt |-> now]]
       /\ UNCHANGED <<now, breakerVars, last_hash, limiterVars, taskVars, calls, acq, streak>>

\* a second passes
CacheTick ==
    /\ UNCHANGED apartVars
    /\ now < MaxCacheTime
    /\ now' = now + 1
    /\ lastOp' = NoOp
    /\ UNCHANGED <<breakerVars, last_hash, limiterVars, cache, taskVars, calls, acq, streak, keyHist>>

NextCache ==
    \/ \E q \in Requests : Get(q[1], q[2])
    \/ \E q \in Requests, r \in Responses : Set(q[1], r, q[2])
    \/ CacheTick

SpecCache == InitCache /\ [][NextCache]_vars

\* C8: get(key) right after set(key, value) returns value, and get(key) more
\* than ttl_seconds after the last set of the key returns None.
C8_RoundTrip ==
    (lastOp.op = "get" /\ keyHist[lastOp.key].setAt # None)
    => /\ lastOp.at = keyHist[lastOp.key].setAt
          => lastOp.response = keyHist[lastOp.key].response
       /\ lastOp.at - keyHist[lastOp.key].setAt > cache.ttl_seconds
          => lastOp.response = NoResponse

\* a key that was set is read after its TTL has passed
C8_Witness ==
    /\ lastOp.op = "get" /\ keyHist[lastOp.key].setAt # None
    /\ lastOp.at - keyHist[lastOp.key].setAt > cache.ttl_seconds
    /\ lastOp.response = NoResponse

\* C9: the in-memory map never holds more than max_size entries.
C9_MemoryBounded == Len(cache.mem) <= cache.max_size

\* C10: a set on a full in-memory map evicts exactly the entry used least
\* recently (returned by get or written by set); a set of a key the map
\* already holds evicts nothing.
C10_EvictsLeastRecentlyUsed ==
    [][lastOp'.op = "set"
       => LET key == lastOp'.key
              evicted == MemKeys(cache) \ MemKeys(cache')
          IN /\ key \in MemKeys(cache) => evicted = {}
             /\ (key \notin MemKeys(cache) /\ Len(cache.mem) = cache.max_size)
                => /\ Cardinality(evicted) = 1
                   /\ \A e \in evicted, k \in MemKeys(cache) :
                         keyHist[e].usedAt <= keyHist[k].usedAt]_vars

\* C11: an entry that size pressure has evicted from the in-memory map is
\* still returned by get while its age since its set is below ttl_seconds, and
\* get returns no entry, promoted from disk or not, whose age since its set
\* exceeds ttl_seconds.
C11_TwoTiers ==
    (lastOp.op = "get" /\ keyHist[lastOp.key].setAt # None)
    => /\ lastOp.at - keyHist[lastOp.key].setAt < cache.ttl_seconds
          => lastOp.response = keyHist[lastOp.key].response
       /\ lastOp.response # NoResponse
          => /\ lastOp.at - keyHist[lastOp.key].setAt <= cache.ttl_seconds
             /\ lastOp.key \in MemKeys(cache)
             /\ cache.mem[MemIndex(cache, lastOp.key)].timestamp = keyHist[lastOp.key].setAt

\* an entry evicted from the in-memory map is served from its .pkl file, at a
\* later second than its set, and is back in the map
C11_Witness ==
    /\ lastOp.op = "get" /\ lastOp.tier = "disk"
    /\ lastOp.response = keyHist[lastOp.key].response
    /\ lastOp.at > keyHist[lastOp.key].setAt
    /\ lastOp.key \in MemKeys(cache)

(***************************************************************************)
(* StealthScraper.scrape_with_strategy alone: tasks run the ladder on one  *)
(* StealthScraper, sharing its ProxyRotator.                               *)
(***************************************************************************)
\* the strategies list of lines 289-295
strategies ==
    <<"_scrape_basic_request", "_scrape_with_cloudscraper", "_scrape_with_httpx",
      "_scrape_with_playwright", "_scrape_with_selenium_grid">>

\* the strategies that begin with self.proxy_rotator.get_proxy()
UsesProxy(s) ==
    s \in {"_scrape_basic_request", "_scrape_with_httpx", "_scrape_with_playwright"}

\* how an attempt can end: "data" is a 200 whose extraction found something,
\* "empty" a 200 whose extraction found nothing ({}), "none" a return of None
StrategyOutcomes(s) ==
    CASE s = "_scrape_basic_request" ->
             {"data", "empty", "status 403", "status other", "raises"}
      [] s = "_scrape_with_cloudscraper" -> {"data", "empty", "none"}
      [] s = "_scrape_with_httpx" -> {"data", "empty", "none", "raises"}
      [] s = "_scrape_with_playwright" -> {"data", "empty", "raises"}
      [] OTHER -> {"none"}

\* the proxy lists a StealthScraper is built with
ProxyLists == {NoList, List(<<>>), List(<<"http://a:1">>)}

InitLadder ==
    /\ now = 1
    /\ \E proxy_list \in ProxyLists :
          /\ proxy_rotator = ProxyRotator(proxy_list)
          /\ proxyHist = NoProxyHist(proxy_list)
    /\ run = [p \in Procs |-> NoRun]
    /\ compared = NoComparison
    /\ detected = [t \in Targets |-> NoDetection]
    /\ extracted = NoExtraction
    /\ built = NoBuilt
    /\ rate_limiter = RateLimiter(rate_limit_delay, burst, 1)
    /\ lock = FreeLock
    /\ circuit_breakers = [t \in Targets |-> CircuitBreaker(failure_threshold, recovery_timeout)]
    /\ stealth_breaker = CircuitBreaker(failure_threshold, recovery_timeout)
    /\ cache = ResponseCache(max_size, cache_ttl)
    /\ last_hash = [t \in Targets |-> NoHash]
    /\ pc = [p \in Procs |-> "idle"]
    /\ tgt = [p \in Procs |-> NoTarget]
    /\ wake = [p \in Procs |-> None]
    /\ result = [p \in Procs |-> NoResult]
    /\ touched = [p \in Procs |-> {}]
    /\ steps = [p \in Procs |-> <<>>]
    /\ semaphore = NoSemaphore
    /\ batch = NoBatch
    /\ atCall = [p \in Procs |-> NoCall]
    /\ hist = [t \in Targets |-> NoHist]
    /\ calls = [p \in Procs |-> 0]
    /\ acq = [p \in Procs |-> NoAcq]
    /\ streak = NoStreak
    /\ lastOp = NoOp
    /\ keyHist = [k \in CacheKeys |-> NoKeyHist]

\* everything the ladder leaves alone
scraperVars ==
    <<circuit_breakers, rate_limiter, lock, cache, last_hash, pc, tgt, wake, result,
      touched, steps, atCall, hist, calls, acq, streak, lastOp, keyHist, batchVars,
      stealth_breaker>>

\* the marks the strategies put on the proxy they obtained: only
\* _scrape_basic_request calls mark_success (line 367) or mark_failure
\* (lines 372 and 377)
Marks(s, i) == s = "_scrape_basic_request" /\ i # None

AfterMarks(pr, s, i, o) ==
    IF ~Marks(s, i)
    THEN pr
    ELSE CASE o \in {"data", "empty"} -> mark_success(pr, i)
           [] o = "status 403" -> mark_failure(pr, i, TRUE)
           [] OTHER -> mark_failure(pr, i, FALSE)

\* the calls of mark_success and mark_failure made on proxy i between two
\* states of the rotator
MarksApplied(before, after, i) ==
    IF i = None
    THEN 0
    ELSE (after.proxies[i].success_count + after.proxies[i].fail_count)
         - (before.proxies[i].success_count + before.proxies[i].fail_count)

\* mutant: a result that is not None counts as a success
IsTruthy_not_none(o) == o \in {"data", "empty"}

\* line 314, 'if result': None and {} are falsy
IsTruthy(o) == o = "data"

\* the for loop is over
LastStrategy(n) == n = Len(strategies)

\* lines 312-326: the strategy of attempt r.attempts has ended in o
AttemptEnd(r, pr, ph, o) ==
    LET s == strategies[r.attempts]
        i == r.proxy
        r1 == [r EXCEPT !.proxy = None,
                        !.errors = IF o = "raises"
                                   THEN Append(@, [strategy |-> s, error |-> "str(e)"])
                                   ELSE @,
                        !.last = [strategy |-> s, proxy |-> i, outcome |-> o,
                                  marks |-> MarksApplied(pr, AfterMarks(pr, s, i, o), i)]]
    IN [run |-> IF IsTruthy(o)
                THEN [r1 EXCEPT !.pc = "done", !.successful_strategy = s, !.returned = o]
                ELSE IF LastStrategy(r.attempts)
                     THEN [r1 EXCEPT !.pc = "done", !.returned = "None"]
                     ELSE [r1 EXCEPT !.pc = "delay", !.attempts = @ + 1],
        rotator |-> AfterMarks(pr, s, i, o),
        hist |-> IF Marks(s, i) /\ o = "status 403"
                 THEN [ph EXCEPT !.quarantined[i] = now]
                 ELSE ph]

\* line 312: the strategy of attempt r.attempts is called and runs up to its
\* first await; _scrape_with_selenium_grid has none and returns at once
AttemptBegin(r, pr, ph) ==
    LET s == strategies[r.attempts]
        g == IF UsesProxy(s) THEN get_proxy(pr, now) ELSE [proxy |-> None, rotator |-> pr]
        r1 == [r EXCEPT !.pc = "attempt", !.proxy = g.proxy, !.tried = Append(@, s)]
    IN IF s = "_scrape_with_selenium_grid"
       THEN AttemptEnd(r1, g.rotator, ph, "none")
       ELSE [run |-> r1, rotator |-> g.rotator, hist |-> ph]

\* scrape_with_strategy is called: metadata is set up, the first strategy begins
LadderStart(p) ==
    /\ run[p].pc = "idle"
    /\ run[p].runs < MaxRuns
    /\ LET a == AttemptBegin([NoRun EXCEPT !.attempts = 1, !.runs = run[p].runs + 1],
                             proxy_rotator, proxyHist)
       IN /\ run' = [run EXCEPT ![p] = a.run]
          /\ proxy_rotator' = a.rotator
          /\ proxyHist' = a.hist
    /\ UNCHANGED <<now, scraperVars, changeVars>>

\* the strategy under way ends: success returns, failure goes on to the
\* sleep before the next strategy or, after the last, returns None
LadderAttemptEnds(p, o) ==
    /\ run[p].pc = "attempt"
    /\ o \in StrategyOutcomes(strategies[run[p].attempts])
    /\ LET a == AttemptEnd(run[p], proxy_rotator, proxyHist, o)
       IN /\ run' = [run EXCEPT ![p] = a.run]
          /\ proxy_rotator' = a.rotator
          /\ proxyHist' = a.hist
    /\ UNCHANGED <<now, scraperVars, changeVars>>

\* line 309: the human-like delay is over, the next strategy begins
LadderDelayOver(p) ==
    /\ run[p].pc = "delay"
    /\ LET a == AttemptBegin(run[p], proxy_rotator, proxyHist)
       IN /\ run' = [run EXCEPT ![p] = a.run]
          /\ proxy_rotator' = a.rotator
          /\ proxyHist' = a.hist
    /\ UNCHANGED <<now, scraperVars, changeVars>>

\* the caller has the (data, metadata) pair
LadderReturn(p) ==
    /\ run[p].pc = "done"
    /\ run' = [run EXCEPT ![p] = [NoRun EXCEPT !.runs = run[p].runs]]
    /\ UNCHANGED <<now, proxy_rotator, proxyHist, scraperVars, changeVars>>

\* a step of the clock
LadderTick ==
    /\ now < MaxLadderTime
    /\ now' = now + 1
    /\ UNCHANGED <<stealthVars, scraperVars, changeVars>>

AllOutcomes == UNION {StrategyOutcomes(strategies[n]) : n \in 1..Len(strategies)}

\* the calls of this specification are made one after the other, by one task
NextLadder ==
    \/ LadderStart("p1")
    \/ \E o \in AllOutcomes : LadderAttemptEnds("p1", o)
    \/ LadderDelayOver("p1")
    \/ LadderReturn("p1")
    \/ LadderTick

SpecLadder == InitLadder /\ [][NextLadder]_vars

\* an attempt of task p ends in this step
AttemptEnded(p) == run'[p].last # run[p].last /\ run'[p].last.strategy # ""

\* a strategy that calls get_proxy begins in this step
ProxyAsked(p) ==
    /\ Len(run'[p].tried) = Len(run[p].tried) + 1 \/ (run[p].pc = "idle" /\ run'[p].pc # "idle")
    /\ UsesProxy(run'[p].tried[Len(run'[p].tried)])

\* C13: the strategies are tried in the order of the list, none skipped; an
\* attempt that succeeds ends the ladder, with successful_strategy the
\* strategy at position attempts; an attempt that fails is followed by the
\* next strategy of the list or, after the last one, by the return of None.
C13_LadderOrder ==
    [][\A p \in Procs :
         LET r == run'[p]
         IN /\ r.tried = SubSeq(strategies, 1, Len(r.tried))
            /\ r.pc = "attempt" => Len(r.tried) = r.attempts
            /\ AttemptEnded(p)
               => IF r.last.outcome = "data"
                  THEN /\ r.pc = "done" /\ r.returned = "data"
                       /\ r.successful_strategy = r.last.strategy
                       /\ r.successful_strategy = strategies[r.attempts]
                       /\ Len(r.tried) = r.attempts
                  ELSE /\ r.successful_strategy = "None"
                       /\ IF r.last.strategy = strategies[Len(strategies)]
                          THEN r.pc = "done" /\ r.returned = "None"
                               /\ r.attempts = Len(strategies)
                          ELSE r.pc = "delay" /\ strategies[r.attempts - 1] = r.last.strategy
            /\ (run[p].pc = "done" /\ r.pc # "done") => r.pc = "idle" /\ r.tried = <<>>]_vars

\* the third strategy has succeeded after two that returned nothing
C13_Witness ==
    \E p \in Procs :
        /\ run[p].pc = "done" /\ run[p].returned = "data"
        /\ run[p].attempts = 3 /\ run[p].successful_strategy = "_scrape_with_httpx"
        /\ Len(run[p].tried) = 3

\* C15: when scrape_with_strategy returns, metadata['errors'] has one entry
\* for each attempt that did not succeed: attempts - 1 entries on success,
\* attempts entries when every strategy failed.
C15_ErrorPerFailedAttempt ==
    \A p \in Procs :
        run[p].pc = "done"
        => Len(run[p].errors) = IF run[p].returned = "data"
                                THEN run[p].attempts - 1
                                ELSE run[p].attempts

\* the proxy was blocked when get_proxy came to it
WasBlocked(i) == proxy_rotator.proxies[i].blocked

\* get_proxy hands proxy i to task p in this step
Obtained(p, i) == ProxyAsked(p) /\ run'[p].proxy = i

\* get_proxy begins its round at proxy i
ReachedFirst(i) == proxy_rotator.proxies # <<>> /\ proxy_rotator.current_index + 1 = i

GivenNoProxies == proxyHist.given.none \/ proxyHist.given.urls = <<>>

\* every proxy of the rotator is skipped by get_proxy
AllQuarantined ==
    \A i \in DOMAIN proxy_rotator.proxies : StillBlocked(proxy_rotator.proxies[i], now)

\* C17: when the rotator was built with an empty or absent proxy list, or
\* every proxy is quarantined, a strategy that asks for a proxy gets none and
\* makes its request directly.
C17_NoProxyMeansDirect ==
    [][\A p \in Procs :
         (ProxyAsked(p) /\ (GivenNoProxies \/ AllQuarantined))
         => run'[p].proxy = None]_vars

\* C18: every attempt that obtained a proxy has applied exactly one of
\* mark_success and mark_failure to it when it ends, and the rotator never
\* loses a proxy.
C18_OneMarkPerProxyAttempt ==
    /\ \A p \in Procs : run[p].last.proxy # None => run[p].last.marks = 1
    /\ Len(proxy_rotator.proxies) = Len(load_proxies(proxyHist.given))

(***************************************************************************)
(* Change detection alone: ScrapedData.compare_with on pairs of field      *)
(* mappings, and WebScraper._detect_changes on the extractions of a        *)
(* target, one after the other.                                            *)
(***************************************************************************)
Fields == {"price", "title"}
\* the values a field can have: a price is a float or, when the stealth
\* scraper extracted it, a text; a title is a text
FieldValues(k) ==
    IF k = "price" THEN {Float(80), Float(100), Str("$80")} ELSE {Str("a"), Str("b")}

\* the field mappings compared: every mapping of some of the fields
Mappings ==
    UNION {{f \in [S -> UNION {FieldValues(k) : k \in S}] : \A k \in S : f[k] \in FieldValues(k)}
           : S \in SUBSET Fields}

\* the field mappings an extraction of a target yields
Extractions == {<<>>, ("price" :> Float(80)), ("price" :> Float(100))}
\* those, and mappings of two fields, which a dict can hold in two orders
OrderedExtractions ==
    Extractions \cup {[k \in Fields |-> IF k = "price" THEN Float(p) ELSE Str("a")] : p \in {80, 100}}

InitChanges ==
    /\ now = 1
    /\ compared = NoComparison
    /\ detected = [t \in Targets |-> NoDetection]
    /\ extracted = NoExtraction
    /\ built = NoBuilt
    /\ last_hash = [t \in Targets |-> NoHash]
    /\ proxy_rotator = ProxyRotator(NoList)
    /\ proxyHist = NoProxyHist(NoList)
    /\ run = [p \in Procs |-> NoRun]
    /\ rate_limiter = RateLimiter(rate_limit_delay, burst, 1)
    /\ lock = FreeLock
    /\ circuit_breakers = [t \in Targets |-> CircuitBreaker(failure_threshold, recovery_timeout)]
    /\ stealth_breaker = CircuitBreaker(failure_threshold, recovery_timeout)
    /\ cache = ResponseCache(max_size, cache_ttl)
    /\ pc = [p \in Procs |-> "idle"]
    /\ tgt = [p \in Procs |-> NoTarget]
    /\ wake = [p \in Procs |-> None]
    /\ result = [p \in Procs |-> NoResult]
    /\ touched = [p \in Procs |-> {}]
    /\ steps = [p \in Procs |-> <<>>]
    /\ semaphore = NoSemaphore
    /\ batch = NoBatch
    /\ atCall = [p \in Procs |-> NoCall]
    /\ hist = [t \in Targets |-> NoHist]
    /\ calls = [p \in Procs |-> 0]
    /\ acq = [p \in Procs |-> NoAcq]
    /\ streak = NoStreak
    /\ lastOp = NoOp
    /\ keyHist = [k \in CacheKeys |-> NoKeyHist]

\* everything change detection leaves alone
engineVars ==
    <<now, circuit_breakers, rate_limiter, lock, cache, pc, tgt, wake, result,
      touched, steps, atCall, hist, calls, acq, streak, lastOp, keyHist, batchVars,
      stealth_breaker>>

\* current.compare_with(previous), the two being ScrapedData with these data
Compare(current, previous) ==
    /\ compared' = [called |-> TRUE, previous |-> previous, current |-> current,
                    changes |-> compare_with(current, previous)]
    /\ UNCHANGED <<detected, last_hash, engineVars, stealthVars, extractVars>>

\* an extraction of target t has yielded data, in a dict filled in this
\* order: its hash is taken (line 416,
\* lines 289-291) and _detect_changes(target.id, content_hash) is called
Extraction(t, data, order) ==
    LET hash == hash_of_items(Items(data, order))
        d == detect_changes(last_hash[t], hash)
    IN /\ last_hash' = [last_hash EXCEPT ![t] = d.file]
       /\ detected' = [detected EXCEPT ![t] =
              [extractions |-> IF @.extractions = "none" THEN "one" ELSE "several",
               data |-> data, previous |-> @.data, change_detected |-> d.changed,
               changes |-> NoChanges, order |-> order, hash |-> hash,
               previous_hash |-> @.hash]]
       /\ UNCHANGED <<compared, engineVars, stealthVars, extractVars>>

NextChanges ==
    \/ \E current \in Mappings, previous \in Mappings : Compare(current, previous)
    \/ \E t \in Targets, data \in Extractions :
          \E order \in Orders(DOMAIN data) : Extraction(t, data, order)

SpecChanges == InitChanges /\ [][NextChanges]_vars

\* the extractions of the two targets alone, of one field or two
NextHashes ==
    \E t \in Targets, data \in OrderedExtractions :
        \E order \in Orders(DOMAIN data) : Extraction(t, data, order)

SpecHashes == InitChanges /\ [][NextHashes]_vars

\* C19: a ScrapedData compared with itself gives the empty ChangeSet, and an
\* extraction of a target that yields the field mapping of the extraction of
\* that target just before it is reported with change_detected = false.
C19_NoChangeIsNoChange ==
    /\ (compared.called /\ compared.current = compared.previous)
       => compared.changes = <<>>
    /\ \A t \in Targets :
          (detected[t].extractions = "several" /\ detected[t].data = detected[t].previous)
          => ~detected[t].change_detected

\* a ScrapedData with data was compared with itself, and a target was
\* extracted twice running with the same data
C19_Witness ==
    /\ compared.called /\ compared.current = compared.previous
    /\ DOMAIN compared.current = Fields
    /\ \E t \in Targets :
          /\ detected[t].extractions = "several"
          /\ detected[t].data = detected[t].previous /\ detected[t].data # <<>>
          /\ ~detected[t].change_detected

\* C22: the first extraction of a target, made when the target has no hash
\* file, is a baseline: it is reported with change_detected = false and an
\* empty ChangeSet, and its hash is what the hash file holds afterwards.
C22_FirstExtractionIsBaseline ==
    \A t \in Targets :
        detected[t].extractions = "one"
        => /\ ~detected[t].change_detected
           /\ detected[t].changes = <<>>
           /\ last_hash[t] = content_hash(detected[t].data)

\* a target has been extracted once, with a price
C22_Witness ==
    \E t \in Targets :
        /\ detected[t].extractions = "one"
        /\ "price" \in DOMAIN detected[t].data
        /\ last_hash[t] = content_hash(detected[t].data)

\* C38: of the extractions of one target, each one after the first is
\* reported with change_detected = true exactly when its content hash differs
\* from the hash of the extraction just before it; after every extraction the
\* hash file holds the hash of that extraction; and the hash of a field
\* mapping is the same whatever order its fields were extracted in.
C38_ChangeIffHashDiffers ==
    /\ \A t \in Targets :
          detected[t].extractions = "several"
          => (detected[t].change_detected <=> detected[t].hash # detected[t].previous_hash)
    /\ \A t \in Targets :
          detected[t].extractions # "none" => last_hash[t] = detected[t].hash
    /\ \A t, u \in Targets :
          (/\ detected[t].extractions # "none" /\ detected[u].extractions # "none"
           /\ detected[t].data = detected[u].data)
          => detected[t].hash = detected[u].hash

\* a target's extraction was reported as changed, its hash being another
\* than the one before, and the other target yielded the same two fields in
\* the other order
C38_Witness ==
    \E t, u \in Targets :
        /\ detected[t].extractions = "several" /\ detected[t].change_detected
        /\ detected[t].hash # detected[t].previous_hash
        /\ detected[u].extractions # "none"
        /\ detected[u].data = detected[t].data
        /\ Len(detected[t].order) = 2 /\ detected[u].order # detected[t].order
        /\ last_hash[t] = detected[t].hash

\* C20: the ChangeSet has an entry for exactly the fields whose values differ
\* or that are on one side only; a field on both sides is 'increased' or
\* 'decreased' when both values are numbers, as the current one is the
\* greater or the smaller, and 'modified' otherwise; a field on the current
\* side only is 'added' with previous None, a field on the previous side
\* only is 'removed' with current None; {price: 100} against {price: 80}
\* gives price: previous 100, current 80, 'decreased'.
C20_ChangeSetClassification ==
    compared.called
    => LET cur == compared.current
           prev == compared.previous
           changes == compared.changes
       IN /\ DOMAIN changes =
                {k \in Fields : \/ k \in DOMAIN cur /\ k \notin DOMAIN prev
                                \/ k \in DOMAIN prev /\ k \notin DOMAIN cur
                                \/ /\ k \in DOMAIN cur /\ k \in DOMAIN prev
                                   /\ cur[k] # prev[k]}
          /\ \A k \in DOMAIN changes :
                IF k \in DOMAIN cur /\ k \in DOMAIN prev
                THEN /\ changes[k].previous = prev[k]
                     /\ changes[k].current = cur[k]
                     /\ changes[k].change_type =
                           IF cur[k][1] = "float" /\ prev[k][1] = "float"
                           THEN IF cur[k][2] > prev[k][2] THEN "increased" ELSE "decreased"
                           ELSE "modified"
                ELSE IF k \in DOMAIN cur
                     THEN changes[k] = [previous |-> NoneValue, current |-> cur[k],
                                        change_type |-> "added"]
                     ELSE changes[k] = [previous |-> prev[k], current |-> NoneValue,
                                        change_type |-> "removed"]
          /\ (prev = ("price" :> Float(100)) /\ cur = ("price" :> Float(80)))
             => changes = ("price" :> [previous |-> Float(100), current |-> Float(80),
                                       change_type |-> "decreased"])

\* {price: 80} was compared with the previous {price: 100}
C20_Witness ==
    /\ compared.called
    /\ compared.previous = ("price" :> Float(100))
    /\ compared.current = ("price" :> Float(80))
    /\ compared.changes["price"].change_type = "decreased"

(***************************************************************************)
(* Extraction alone: one call of _extract_with_strategy on a field, or one  *)
(* extraction of a whole document on one of the three fetch paths.         *)
(***************************************************************************)
\* the longest text drawn from the alphabet
MaxTextLen == 3

PriceAlphabet == {"$", "1", "5", ",", ".", "-"}

\* the texts a price element reads: every text over the alphabet, and some
\* longer ones
PriceTexts ==
    UNION {[1..n -> PriceAlphabet] : n \in 0..MaxTextLen}
    \cup {<<"$", "1", ",", "2", "3", "4", ".", "5", "6">>,
          <<"$", "1", ",", "2", "3", "4">>,
          <<"1", ",", "2", "3", "4", ".", "5">>,
          <<"1", "2", ",", "5", "0">>,
          <<"1", "2", ".", "5", "0">>,
          <<"$", "1", "0", "0">>,
          <<"$", "8", "0">>}

\* the phrases an availability element is made of, and the texts it reads:
\* one phrase, or two with a blank between them
Phrases ==
    {<<"I", "n", " ", "S", "t", "o", "c", "k">>,
     <<"A", "V", "A", "I", "L", "A", "B", "L", "E">>,
     <<"i", "n", "-", "s", "t", "o", "c", "k">>,
     <<"R", "e", "a", "d", "y">>,
     <<"O", "u", "t", " ", "o", "f", " ", "S", "t", "o", "c", "k">>,
     <<"U", "n", "a", "v", "a", "i", "l", "a", "b", "l", "e">>,
     <<"S", "o", "l", "d", " ", "o", "u", "t">>,
     <<"L", "i", "m", "i", "t", "e", "d">>,
     <<"f", "e", "w", " ", "l", "e", "f", "t">>,
     <<"S", "o", "o", "n">>}
AvailabilityTexts == Phrases \cup {a \o <<" ">> \o b : a \in Phrases, b \in Phrases}

TitleTexts == {<<"W", "i", "d", "g", "e", "t">>, <<>>}

TextsOf(field_name) ==
    IF IsPriceField(field_name) THEN PriceTexts
    ELSE IF IsAvailabilityField(field_name) THEN AvailabilityTexts
    ELSE TitleTexts

\* the fields a target of the model asks for, and the documents extracted:
\* every way the selectors of some of these fields can fare
DocFields == {"price", "title"}
DocTexts(k) == IF k = "price" THEN {<<"$", "1", "0", "0">>, <<"$", "8", "0">>} ELSE {<<"W", "i", "d", "g", "e", "t">>}
Finds(k) == {Found(m, text) : m \in Matches \ {"none"}, text \in DocTexts(k)}
               \cup {Found("none", <<>>)}
Documents ==
    UNION {{doc \in [S -> UNION {Finds(k) : k \in S}] : \A k \in S : doc[k] \in Finds(k)}
           : S \in SUBSET DocFields \ {{}}}

\* the three ways a document reaches extraction
Paths == {"stealth", "basic", "cache"}

InitExtract ==
    /\ now = 1
    /\ extracted = NoExtraction
    /\ built = NoBuilt
    /\ compared = NoComparison
    /\ detected = [t \in Targets |-> NoDetection]
    /\ last_hash = [t \in Targets |-> NoHash]
    /\ proxy_rotator = ProxyRotator(NoList)
    /\ proxyHist = NoProxyHist(NoList)
    /\ run = [p \in Procs |-> NoRun]
    /\ rate_limiter = RateLimiter(rate_limit_delay, burst, 1)
    /\ lock = FreeLock
    /\ circuit_breakers = [t \in Targets |-> CircuitBreaker(failure_threshold, recovery_timeout)]
    /\ stealth_breaker = CircuitBreaker(failure_threshold, recovery_timeout)
    /\ cache = ResponseCache(max_size, cache_ttl)
    /\ pc = [p \in Procs |-> "idle"]
    /\ tgt = [p \in Procs |-> NoTarget]
    /\ wake = [p \in Procs |-> None]
    /\ result = [p \in Procs |-> NoResult]
    /\ touched = [p \in Procs |-> {}]
    /\ steps = [p \in Procs |-> <<>>]
    /\ semaphore = NoSemaphore
    /\ batch = NoBatch
    /\ atCall = [p \in Procs |-> NoCall]
    /\ hist = [t \in Targets |-> NoHist]
    /\ calls = [p \in Procs |-> 0]
    /\ acq = [p \in Procs |-> NoAcq]
    /\ streak = NoStreak
    /\ lastOp = NoOp
    /\ keyHist = [k \in CacheKeys |-> NoKeyHist]

\* self._extract_with_strategy(soup, selector, field_name), the selector
\* finding found in the document
ExtractField(field_name, found) ==
    /\ ~extracted.called /\ ~built.called
    /\ extracted' = [called |-> TRUE, field_name |-> field_name, found |-> found,
                     value |-> extract_with_strategy(found, field_name)]
    /\ UNCHANGED <<built, compared, detected, last_hash, engineVars, stealthVars>>

\* the document doc of target t1 is extracted on a fetch path: by the stealth
\* scraper, whose data scrape_target_async takes when it is not empty (lines
\* 285-307), or by _extract_data, of a fetched or of a cached body
ExtractDocument(path, doc) ==
    LET r == IF path = "stealth"
             THEN stealth_result(StealthFields(doc), Cardinality(DOMAIN doc), last_hash["t1"])
             ELSE extract_data(doc, path = "cache", last_hash["t1"])
    IN /\ ~extracted.called /\ ~built.called
       /\ path = "stealth" => StealthFields(doc) # <<>>
       /\ built' = [called |-> TRUE, path |-> path, doc |-> doc, result |-> r.result,
                    warnings |-> IF path = "stealth" THEN {} ELSE ExtractedFields(doc).warnings,
                    errors |-> IF path = "stealth" THEN {} ELSE ExtractedFields(doc).errors]
       /\ last_hash' = [last_hash EXCEPT !["t1"] = r.file]
       /\ UNCHANGED <<extracted, compared, detected, engineVars, stealthVars>>

NextExtract ==
    \/ \E field_name \in FieldNames, m \in Matches :
           \E text \in TextsOf(field_name) : ExtractField(field_name, Found(m, text))
    \/ \E path \in Paths, doc \in Documents : ExtractDocument(path, doc)

SpecExtract == InitExtract /\ [][NextExtract]_vars

\* a text is a currency number: an optional currency sign, digits in groups
\* of three parted by commas or in one run, and optional decimals after a point
WholePart(text) ==
    LET body == IF text # <<>> /\ text[1] = "$" THEN Tail(text) ELSE text
    IN IF Count(body, ".") = 0
       THEN body
       ELSE SubSeq(body, 1, (CHOOSE i \in DOMAIN body : body[i] = ".") - 1)

DecimalPart(text) ==
    IF Count(text, ".") = 0
    THEN <<>>
    ELSE SubSeq(text, (CHOOSE i \in DOMAIN text : text[i] = ".") + 1, Len(text))

IsCurrencyNumber(text) ==
    LET whole == WholePart(text)
        decimals == DecimalPart(text)
        Grouped == \A i \in DOMAIN whole : (whole[i] = ",") <=> ((Len(whole) - i + 1) % 4 = 0)
        Plain == \A i \in DOMAIN whole : IsDigit(whole[i])
    IN /\ Count(text, ".") <= 1
       /\ Count(text, ".") = 1 => decimals # <<>>
       /\ \A i \in DOMAIN decimals : IsDigit(decimals[i])
       /\ whole # <<>> /\ IsDigit(whole[1])
       /\ \A i \in DOMAIN whole : IsDigit(whole[i]) \/ whole[i] = ","
       /\ Grouped \/ Plain

\* the number a currency number stands for
NumberOf(text) ==
    LET whole == SelectSeq(WholePart(text), IsDigit)
        decimals == DecimalPart(text)
    IN <<"float", DigitsValue(whole) * Scale
                  + DigitsValue(decimals) * 10 ^ (Decimals - Len(decimals))>>

\* C23: a price field whose element reads a currency number, thousands
\* separators included, extracts to that number ("$1,234.56" to 1234.56), and
\* an availability field whose element's text holds one of the positive key
\* words, in whatever case, extracts to in_stock ("In Stock" to in_stock).
C23_PriceAndAvailabilityCoercion ==
    (extracted.called /\ CoercedBy(extracted.found.match))
    => /\ (IsPriceField(extracted.field_name) /\ IsCurrencyNumber(extracted.found.text))
          => extracted.value = NumberOf(extracted.found.text)
       /\ (IsPriceField(extracted.field_name) /\ extracted.found.text = <<"$", "1", ",", "2", "3", "4", ".", "5", "6">>)
          => extracted.value = <<"float", 123456 * (Scale \div 100)>>
       /\ (/\ IsAvailabilityField(extracted.field_name)
           /\ \E w \in PositiveWords : Contains(Lower(extracted.found.text), w))
          => extracted.value = in_stock
       /\ (IsAvailabilityField(extracted.field_name) /\ extracted.found.text = <<"I", "n", " ", "S", "t", "o", "c", "k">>)
          => extracted.value = in_stock

\* "$1,234.56" has been extracted as a price
C23_Witness ==
    /\ extracted.called /\ extracted.field_name = "price"
    /\ extracted.found = Found("css", <<"$", "1", ",", "2", "3", "4", ".", "5", "6">>)
    /\ extracted.value = <<"float", 123456 * (Scale \div 100)>>

\* a text whose only separator is one comma between digits
IsCommaDecimal(text) ==
    LET body == IF text # <<>> /\ text[1] = "$" THEN Tail(text) ELSE text
    IN /\ Count(body, ",") = 1
       /\ \A i \in DOMAIN body : IsDigit(body[i]) \/ body[i] = ","
       /\ Len(body) >= 3 /\ body[1] # "," /\ body[Len(body)] # ","

\* C24: a price text whose only separator is one comma, the decimal mark,
\* extracts to what the same text written with a point extracts to ("12,50"
\* to 12.5).
C24_CommaAsDecimalMark ==
    (/\ extracted.called /\ CoercedBy(extracted.found.match)
     /\ IsPriceField(extracted.field_name) /\ IsCommaDecimal(extracted.found.text))
    => extracted.value = extract_price(CommasToDots(extracted.found.text))

\* C25: the value of a field whose name contains 'price' is a number in every
\* ScrapedData built, whatever strategy found the element and whatever path
\* the document came by.
C25_PriceIsNumeric ==
    built.called
    => \A k \in DOMAIN built.result.data :
           IsPriceField(k) => IsNumber(built.result.data[k])

\* C26: the extraction success rate of every ScrapedData that carries data is
\* the number of fields extracted over the number of fields asked for (as a
\* percentage), on every path.
C26_SuccessRatio ==
    built.called
    => LET rate == built.result.extraction_success_rate
       IN rate.num * Cardinality(DOMAIN built.doc)
              = 100 * Cardinality(DOMAIN built.result.data) * rate.den

(***************************************************************************)
(* WebScraper.scrape_multiple_async: one task for each target of the list, *)
(* each task running scrape_target_async inside `async with semaphore`.    *)
(***************************************************************************)
\* the targets of the batch, and the largest max_concurrent tried
BatchSize == 3
MaxConcurrent == 2
\* the last second of the clock of the batch
MaxBatchTime == 60
\* config.scraping.max_concurrent_scrapers
max_concurrent_scrapers == 10
\* how the fetch of a task of the batch ends: data from the stealth ladder, a
\* page, another status, an exception that scrape_target_async catches
BatchOutcomes == {"stealth", "200", "HTTP error", "exception"}

\* the tasks gather() creates, in the order of the list
Tasks == 1..BatchSize
\* no task: the value of batch.stuck when every fetch ends
NoTask == 0
\* the list of targets: t1, t2, t1, ...
BatchTargets == [i \in Tasks |-> IF i % 2 = 1 THEN "t1" ELSE "t2"]
\* the values of the max_concurrent argument
Bounds == {None} \cup (1..MaxConcurrent)

\* line 581: max_concurrent or self.config.scraping.max_concurrent_scrapers
EffectiveBound(max_concurrent) ==
    IF Truthy(max_concurrent) THEN max_concurrent ELSE max_concurrent_scrapers

\* mutant: the semaphore never reports itself locked
sem_locked_never(sem) == FALSE

\* Semaphore.locked: no slot left, or somebody queued (no future of the
\* queue is ever cancelled: nothing cancels the tasks of the batch)
sem_locked(sem) == sem.value = 0 \/ sem.waiters # <<>>

\* Semaphore._wake_up_next: the first waiter whose future is not done is
\* given the slot
RECURSIVE WakeFrom(_, _)
WakeFrom(sem, i) ==
    IF i > Len(sem.waiters)
    THEN sem
    ELSE IF ~sem.waiters[i].done
         THEN [value |-> sem.value - 1,
               waiters |-> [sem.waiters EXCEPT ![i].done = TRUE]]
         ELSE WakeFrom(sem, i + 1)

wake_up_next(sem) == WakeFrom(sem, 1)

\* mutant: the slot is never given back
sem_release_forgotten(sem) == sem

\* Semaphore.release
sem_release(sem) == wake_up_next([sem EXCEPT !.value = @ + 1])

\* Semaphore.acquire, fast path
sem_take(sem) == [sem EXCEPT !.value = @ - 1]

\* Semaphore.acquire, slow path: a future is queued and awaited
sem_wait(sem, p) == [sem EXCEPT !.waiters = Append(@, [task |-> p, done |-> FALSE])]

RECURSIVE Without(_, _)
Without(waiters, p) ==
    IF waiters = <<>>
    THEN <<>>
    ELSE IF Head(waiters).task = p
         THEN Tail(waiters)
         ELSE <<Head(waiters)>> \o Without(Tail(waiters), p)

\* Semaphore.acquire after the await: the future leaves the queue, and a slot
\* that is still free goes to the next waiter
sem_resumed(sem, p) ==
    LET left == [sem EXCEPT !.waiters = Without(@, p)]
    IN IF left.value > 0 THEN wake_up_next(left) ELSE left

\* the future of task p has its result
SlotGiven(sem, p) == \E i \in 1..Len(sem.waiters) : sem.waiters[i].task = p /\ sem.waiters[i].done

\* a breaker after n failures in a row at time t
RECURSIVE FailedTimes(_, _, _)
FailedTimes(cb, n, t) == IF n = 0 THEN cb ELSE FailedTimes(call_failed(cb, t), n - 1, t)

\* the breakers the batch may find: all closed, or that of t2 opened by
\* failure_threshold failures just before
BatchBreakers ==
    { [t \in Targets |-> CircuitBreaker(failure_threshold, recovery_timeout)],
      [t \in Targets |->
          IF t = "t2"
          THEN FailedTimes(CircuitBreaker(failure_threshold, recovery_timeout),
                           failure_threshold, TimeStep)
          ELSE CircuitBreaker(failure_threshold, recovery_timeout)] }

\* the limiter the batch may find: the bucket full, or just emptied
BatchLimiters ==
    { RateLimiter(rate_limit_delay, burst, TimeStep),
      [RateLimiter(rate_limit_delay, burst, TimeStep) EXCEPT !.tokens = 0] }

\* lines 581-589: the semaphore is made and the tasks are created; batch.stuck
\* is the task whose fetch never ends, if there is one
InitBatch ==
    /\ now = TimeStep
    /\ circuit_breakers \in BatchBreakers
    /\ stealth_breaker = CircuitBreaker(failure_threshold, recovery_timeout)
    /\ hist = [t \in Targets |->
                  IF circuit_breakers[t].state = "open"
                  THEN [consec |-> failure_threshold, lastFail |-> TimeStep]
                  ELSE NoHist]
    /\ rate_limiter \in BatchLimiters
    /\ lock = FreeLock
    /\ cache = ResponseCache(max_size, cache_ttl)
    /\ last_hash = [t \in Targets |-> NoHash]
    /\ proxy_rotator = ProxyRotator(NoList)
    /\ run = [p \in Procs |-> NoRun]
    /\ proxyHist = NoProxyHist(NoList)
    /\ compared = NoComparison
    /\ detected = [t \in Targets |-> NoDetection]
    /\ extracted = NoExtraction
    /\ built = NoBuilt
    /\ pc = [p \in Tasks |-> "new"]
    /\ tgt = [p \in Tasks |-> NoTarget]
    /\ wake = [p \in Tasks |-> None]
    /\ result = [p \in Tasks |-> NoResult]
    /\ touched = [p \in Tasks |-> {}]
    /\ steps = [p \in Tasks |-> <<>>]
    /\ atCall = [p \in Tasks |-> NoCall]
    /\ calls = [p \in Procs |-> 0]
    /\ acq = [p \in Procs |-> NoAcq]
    /\ streak = NoStreak
    /\ lastOp = NoOp
    /\ keyHist = [k \in CacheKeys |-> NoKeyHist]
    /\ \E n \in Bounds, s \in Tasks \cup {NoTask} :
          /\ semaphore = Semaphore(EffectiveBound(n))
          /\ batch = [pc |-> "running", targets |-> BatchTargets, max_concurrent |-> n,
                      stuck |-> s, valid_results |-> <<>>]

\* __aexit__ of `async with semaphore` (line 585): the slot is given back
\* when scrape_target_async has returned
AfterPipeline(sem, p) == IF pc'[p] = "done" THEN sem_release(sem) ELSE sem

\* the first step of a task (line 585): the tasks start in the order of the
\* list; a free slot is taken and scrape_target_async runs to its first
\* await, otherwise the task queues for a slot
BatchStart(p) ==
    /\ batch.pc = "running"
    /\ pc[p] = "new"
    /\ \A q \in Tasks : q < p => pc[q] # "new"
    /\ UNCHANGED <<batch, stealthVars, changeVars, stealth_breaker>>
    /\ IF sem_locked(semaphore)
       THEN /\ semaphore' = sem_wait(semaphore, p)
            /\ pc' = [pc EXCEPT ![p] = "waitsem"]
            /\ UNCHANGED <<now, breakerVars, limiterVars, cache, last_hash, tgt, wake, result,
                           touched, steps, atCall, aloneVars>>
       ELSE /\ CallBody(p, batch.targets[p])
            /\ semaphore' = AfterPipeline(sem_take(semaphore), p)

\* the task that was given a slot runs on: scrape_target_async to its first
\* await
SlotGranted(p) ==
    /\ pc[p] = "waitsem"
    /\ SlotGiven(semaphore, p)
    /\ CallBody(p, batch.targets[p])
    /\ semaphore' = AfterPipeline(sem_resumed(semaphore, p), p)
    /\ UNCHANGED <<batch, stealthVars, changeVars, stealth_breaker>>

BatchResume(p) ==
    /\ ResumeBody(p)
    /\ semaphore' = AfterPipeline(semaphore, p)
    /\ UNCHANGED <<batch, stealthVars, changeVars, stealth_breaker>>

BatchWakeUp(p) ==
    /\ WakeUpBody(p)
    /\ semaphore' = AfterPipeline(semaphore, p)
    /\ UNCHANGED <<batch, stealthVars, changeVars, stealth_breaker>>

\* the fetch of a task ends (the steps of the call are followed for the
\* single call, not here)
BatchFetchDone(p, o) ==
    /\ FetchDoneBody(p, o, FALSE)
    /\ semaphore' = AfterPipeline(semaphore, p)
    /\ UNCHANGED <<batch, stealthVars, changeVars, stealth_breaker>>

\* lines 591-597: the results that are not None, in the order of the list
\* (scrape_target_async catches what the fetch raises, so that gather() has
\* no exception to hand over)
RECURSIVE ValidResults(_, _)
ValidResults(results, i) ==
    IF i > BatchSize
    THEN <<>>
    ELSE (IF results[i].kind # "None" THEN <<results[i]>> ELSE <<>>)
         \o ValidResults(results, i + 1)

\* lines 589-599: gather() returns when every task is done
BatchReturn ==
    /\ batch.pc = "running"
    /\ \A p \in Tasks : pc[p] = "done"
    /\ batch' = [batch EXCEPT !.pc = "returned", !.valid_results = ValidResults(result, 1)]
    /\ UNCHANGED <<now, breakerVars, limiterVars, cache, last_hash, taskVars, aloneVars,
                   semaphore, stealthVars, changeVars, stealth_breaker>>

\* wall-clock time passes; the sleep of a task always comes to its end
BatchTick ==
    /\ batch.pc = "running"
    /\ now + TimeStep <= MaxBatchTime \/ \E p \in Tasks : pc[p] = "sleeping" /\ wake[p] > now
    /\ now' = now + TimeStep
    /\ UNCHANGED <<breakerVars, limiterVars, cache, last_hash, taskVars, aloneVars, apartVars>>

NextBatch ==
    \/ \E p \in Tasks : BatchStart(p)
    \/ \E p \in Tasks : SlotGranted(p)
    \/ \E p \in Tasks : BatchResume(p)
    \/ \E p \in Tasks : BatchWakeUp(p)
    \/ \E p \in Tasks, o \in BatchOutcomes : BatchFetchDone(p, o)
    \/ BatchReturn
    \/ BatchTick

SpecBatch == InitBatch /\ [][NextBatch]_vars

\* C39: the breakers are per target: a step of a task of the batch, whatever
\* it does to the breaker of its own target (a rejection, a trial let
\* through, a success, a failure), leaves the state, the failure_count and
\* the last_failure_time of every other target's breaker as they were, the
\* tasks of the other targets being under way at the same time.
C39_BreakersArePerTarget ==
    [][\A p \in Tasks :
         pc'[p] # pc[p]
         => \A b \in Targets \ {batch.targets[p]} :
                /\ circuit_breakers'[b].state = circuit_breakers[b].state
                /\ circuit_breakers'[b].failure_count = circuit_breakers[b].failure_count
                /\ circuit_breakers'[b].last_failure_time = circuit_breakers[b].last_failure_time]_vars

\* one call for t1 has failed and counts, while the breaker of t2, open
\* since before the batch, has rejected the call for t2 and stands as it was
C39_Witness ==
    \E p, q \in Tasks :
        /\ batch.targets[p] = "t1" /\ pc[p] = "done" /\ result[p].errors # ""
        /\ circuit_breakers["t1"].failure_count >= 1
        /\ circuit_breakers["t1"].last_failure_time > TimeStep
        /\ batch.targets[q] = "t2" /\ pc[q] = "done" /\ result[q].kind = "None"
        /\ circuit_breakers["t2"] =
               FailedTimes(CircuitBreaker(failure_threshold, recovery_timeout),
                           failure_threshold, TimeStep)

\* a fetch that ends: every fetch but that of the stuck task
FetchEnds(p) == p # batch.stuck /\ \E o \in BatchOutcomes : BatchFetchDone(p, o)

\* what the event loop has to run: a task that is ready, a timer that is due,
\* the end of a fetch other than that of the stuck task
Scheduled ==
    \/ \E p \in Tasks : BatchStart(p) \/ SlotGranted(p) \/ BatchResume(p) \/ BatchWakeUp(p)
    \/ \E p \in Tasks : FetchEnds(p)
    \/ BatchReturn
    \/ BatchTick

\* the event loop does not stop while there is something for it to run; no
\* step of the batch can be taken twice, so that this is as much as fairness
\* to each task
SpecBatchFair == SpecBatch /\ WF_vars(Scheduled)

\* the tasks that are inside scrape_target_async
Inside == {p \in Tasks : pc[p] \in {"waitlock", "sleeping", "fetching"}}

\* C27: at no time are more pipelines inside scrape_target_async than the
\* bound the batch was given (the configured bound when none was given)
C27_ConcurrencyBound ==
    batch.pc # "idle" => Cardinality(Inside) <= EffectiveBound(batch.max_concurrent)

\* C27 witness: more targets than slots, every slot in use and a task queued
C27_Witness ==
    /\ batch.pc = "running"
    /\ Truthy(batch.max_concurrent)
    /\ BatchSize > batch.max_concurrent
    /\ Cardinality(Inside) = batch.max_concurrent
    /\ \E p \in Tasks : pc[p] = "waitsem"

\* C28: when scrape_multiple_async returns, the list it returns has one
\* outcome for each target of the batch, whatever the outcomes were
C28_OneOutcomePerTarget ==
    batch.pc = "returned" => Len(batch.valid_results) = Len(batch.targets)

\* every task of the batch but the stuck one is done
OthersDone == \A p \in Tasks : p # batch.stuck => pc[p] = "done"

\* C29: in a batch with a bound of two or more (or the configured bound), a
\* pipeline whose fetch never ends keeps no other pipeline from its slot, from
\* the limiter or from its end: every other task is eventually done
C29_NoStarvation ==
    (batch.pc = "running" /\ EffectiveBound(batch.max_concurrent) >= 2) ~> OthersDone

\* C29 witness: with a bound of two, the stuck task is in its fetch and the
\* others are done, one of them after a fetch of its own
C29_Witness ==
    /\ batch.max_concurrent = 2
    /\ batch.stuck # NoTask
    /\ pc[batch.stuck] = "fetching"
    /\ OthersDone
    /\ \E p \in Tasks : p # batch.stuck /\ "network" \in touched[p]

\* the fields of a document whose selector could not be evaluated
RaisedFields(doc) == {k \in DOMAIN doc : doc[k].match = "raises"}

\* C32: _extract_data accounts for every requested field once: in data when
\* it has a value, in errors when the evaluation of its selector raised, in
\* warnings otherwise; the three add up to the fields requested
C32_FieldAccounting ==
    (built.called /\ built.path # "stealth")
    => /\ Cardinality(DOMAIN built.result.data) + Cardinality(built.warnings)
              + Cardinality(built.errors) = Cardinality(DOMAIN built.doc)
       /\ built.errors = RaisedFields(built.doc)
       /\ built.warnings \cap built.errors = {}
       /\ DOMAIN built.result.data \cap (built.warnings \cup built.errors) = {}

\* a text holds one of the words of a set, whatever the case of its letters
HasWord(text, words) == \E w \in words : Contains(Lower(text), w)

\* C33: the text of an availability field that holds a negative indicator is
\* normalized to out_of_stock, one that holds a limited indicator and neither
\* a negative nor a positive one to limited, in_stock is returned only for a
\* text that holds a positive indicator, and a text that holds no key word
\* yields its first 50 characters
C33_AvailabilityNormalization ==
    (/\ extracted.called
     /\ IsAvailabilityField(extracted.field_name)
     /\ extracted.found.match = "css")
    => LET text == extracted.found.text
           neg == HasWord(text, NegativeWords)
           pos == HasWord(text, PositiveWords)
           lim == HasWord(text, LimitedWords)
       IN /\ neg => extracted.value = out_of_stock
          /\ (lim /\ ~neg /\ ~pos) => extracted.value = limited
          /\ extracted.value = in_stock => pos
          /\ (~neg /\ ~pos /\ ~lim)
             => extracted.value = Str(SubSeq(Lower(text), 1, Min(50, Len(text))))

(***************************************************************************)
(* ProxyRotator alone: get_proxy and mark_failure called one after the     *)
(* other on one rotator, as the strategies of the stealth scraper do.      *)
(***************************************************************************)
\* the longest proxy list, the calls of get_proxy, and the last second of the
\* clock
MaxProxies == 3
MaxGets == 4
MaxRotTime == 4

ProxyUrls == <<"http://a:1", "http://b:1", "http://c:1", "http://d:1", "http://e:1">>
\* the proxy lists the rotator is built with: None (the two placeholders) and
\* lists of one to MaxProxies urls
RotatorLists == {NoList} \cup {List(SubSeq(ProxyUrls, 1, n)) : n \in 1..MaxProxies}

InitRotator ==
    /\ now = 1
    /\ \E proxy_list \in RotatorLists :
          /\ proxy_rotator = ProxyRotator(proxy_list)
          /\ proxyHist = NoProxyHist(proxy_list)
    /\ run = [p \in Procs |-> NoRun]
    /\ compared = NoComparison
    /\ detected = [t \in Targets |-> NoDetection]
    /\ extracted = NoExtraction
    /\ built = NoBuilt
    /\ rate_limiter = RateLimiter(rate_limit_delay, burst, 1)
    /\ lock = FreeLock
    /\ circuit_breakers = [t \in Targets |-> CircuitBreaker(failure_threshold, recovery_timeout)]
    /\ stealth_breaker = CircuitBreaker(failure_threshold, recovery_timeout)
    /\ cache = ResponseCache(max_size, cache_ttl)
    /\ last_hash = [t \in Targets |-> NoHash]
    /\ pc = [p \in Procs |-> "idle"]
    /\ tgt = [p \in Procs |-> NoTarget]
    /\ wake = [p \in Procs |-> None]
    /\ result = [p \in Procs |-> NoResult]
    /\ touched = [p \in Procs |-> {}]
    /\ steps = [p \in Procs |-> <<>>]
    /\ semaphore = NoSemaphore
    /\ batch = NoBatch
    /\ atCall = [p \in Procs |-> NoCall]
    /\ hist = [t \in Targets |-> NoHist]
    /\ calls = [p \in Procs |-> 0]
    /\ acq = [p \in Procs |-> NoAcq]
    /\ streak = NoStreak
    /\ lastOp = NoOp
    /\ keyHist = [k \in CacheKeys |-> NoKeyHist]

\* get_proxy is called: what it returned, when, and the proxies as the call
\* found them
RotGet ==
    LET g == get_proxy(proxy_rotator, now)
    IN /\ Len(proxyHist.served) < MaxGets
       /\ proxy_rotator' = g.rotator
       /\ proxyHist' = [proxyHist EXCEPT !.served =
              Append(@, [proxy |-> g.proxy, at |-> now, before |-> proxy_rotator.proxies,
                         blocked |-> IF g.proxy = None THEN FALSE
                                     ELSE g.rotator.proxies[g.proxy].blocked])]
       /\ UNCHANGED <<now, run, scraperVars, changeVars>>

\* mark_failure(proxy, block=True) is called for a proxy that get_proxy has
\* handed out and that is not quarantined (lines 367-372: a 403 answer)
RotMarkFailure(i) ==
    /\ i \in 1..Len(proxy_rotator.proxies)
    /\ proxy_rotator.proxies[i].last_used # None
    /\ ~proxy_rotator.proxies[i].blocked
    /\ proxy_rotator' = mark_failure(proxy_rotator, i, TRUE)
    /\ proxyHist' = [proxyHist EXCEPT !.quarantined[i] =
                        IF proxy_rotator'.proxies[i].blocked /\ ~proxy_rotator.proxies[i].blocked
                        THEN now ELSE @]
    /\ UNCHANGED <<now, run, scraperVars, changeVars>>

RotTick ==
    /\ now < MaxRotTime
    /\ now' = now + 1
    /\ UNCHANGED <<stealthVars, scraperVars, changeVars>>

NextRotator ==
    \/ RotGet
    \/ \E i \in 1..MaxProxies : RotMarkFailure(i)
    \/ RotTick

SpecRotator == InitRotator /\ [][NextRotator]_vars

\* a proxy as a call of get_proxy found it is quarantined, and within its window
Quarantined(proxy) == proxy.blocked
InWindow(proxy, t) == proxy.last_used # None /\ t - proxy.last_used <= retry_after
NoneQuarantined(call) == \A i \in DOMAIN call.before : ~Quarantined(call.before[i])

\* C34: get_proxy never returns a proxy whose blocked flag is set; of n calls
\* in a row that find no proxy quarantined, n being the number of proxies,
\* each returns the proxy after the one returned before it, the first proxy
\* following the last, so that every proxy is returned once; and None is
\* returned only when every proxy is quarantined and within its window
C34_RoundRobin ==
    LET served == proxyHist.served
        n == Len(proxy_rotator.proxies)
    IN /\ \A k \in DOMAIN served : ~served[k].blocked
       /\ \A k \in DOMAIN served :
             (k + n - 1 <= Len(served) /\ \A j \in k..(k + n - 1) : NoneQuarantined(served[j]))
             => /\ {served[j].proxy : j \in k..(k + n - 1)} = 1..n
                /\ \A j \in (k + 1)..(k + n - 1) : served[j].proxy = (served[j - 1].proxy % n) + 1
                /\ k = 1 => served[k].proxy = 1
       /\ \A k \in DOMAIN served :
             served[k].proxy = None
             => \A i \in DOMAIN served[k].before :
                    Quarantined(served[k].before[i]) /\ InWindow(served[k].before[i], served[k].at)

\* C34 witness: the proxies of a list were returned in order while none was
\* quarantined, a later call returned None, and another returned a proxy
\* while one was quarantined
C34_Witness ==
    LET served == proxyHist.served
        n == Len(proxy_rotator.proxies)
    IN /\ n >= 2
       /\ Len(served) > n
       /\ \A k \in 1..n : served[k].proxy = k /\ NoneQuarantined(served[k])
       /\ \E k \in DOMAIN served : served[k].proxy = None
       /\ \E k \in DOMAIN served : served[k].proxy # None /\ ~NoneQuarantined(served[k])


(***************************************************************************)
(* The two exported circuit breakers side by side: a scraper.CircuitBreaker *)
(* driven as scrape_target_async drives it (is_open, then call_succeeded   *)
(* or call_failed) and a stealth_scraper.CircuitBreaker driven through     *)
(* call(), both built with the same arguments and given the same calls at  *)
(* the same times.                                                         *)
(***************************************************************************)
\* the last second of the clock of the two breakers
MaxPairTime == 300

\* scraper.CircuitBreaker around one call (scraper.py lines 260-264, then 286
\* or 335 on success, 349, 357 or 367 on failure): whether the call was
\* rejected, and the breaker left behind
guarded_call(cb, succeeds, t) ==
    LET r == is_open(cb, t)
    IN IF r.open
       THEN [rejected |-> TRUE, cb |-> r.cb]
       ELSE [rejected |-> FALSE,
             cb |-> IF succeeds THEN call_succeeded(r.cb) ELSE call_failed(r.cb, t)]

\* stealth_scraper.CircuitBreaker.call(func) (stealth_scraper.py lines 614-635),
\* func returning or raising: whether "Circuit breaker is open" was raised
\* instead of calling func, and the breaker left behind
stealth_call(cb, succeeds, t) ==
    LET probed == IF cb.state = "open" /\ t - cb.last_failure_time > cb.recovery_timeout
                  THEN [cb EXCEPT !.state = "half-open"]
                  ELSE cb
        n == probed.failure_count + 1
    IN IF probed.state = "open"
       THEN [rejected |-> TRUE, cb |-> probed]
       ELSE IF succeeds
            THEN [rejected |-> FALSE,
                  cb |-> IF probed.state = "half-open"
                         THEN [probed EXCEPT !.state = "closed", !.failure_count = 0]
                         ELSE probed]
            ELSE [rejected |-> FALSE,
                  cb |-> [probed EXCEPT !.failure_count = n,
                                        !.last_failure_time = t,
                                        !.state = IF n >= probed.failure_threshold
                                                  THEN "open" ELSE @]]

\* everything the two breakers leave alone
pairFrame ==
    <<hist, limiterVars, cache, last_hash, taskVars, aloneVars, stealthVars, changeVars,
      batchVars>>

\* one call, succeeding or failing, is put through both breakers
PairCall(succeeds) ==
    /\ circuit_breakers' =
           [circuit_breakers EXCEPT !["t1"] = guarded_call(@, succeeds, now).cb]
    /\ stealth_breaker' = stealth_call(stealth_breaker, succeeds, now).cb
    /\ UNCHANGED <<now, pairFrame>>

\* time passes between two calls
PairTick ==
    /\ now + TimeStep <= MaxPairTime
    /\ now' = now + TimeStep
    /\ UNCHANGED <<circuit_breakers, stealth_breaker, pairFrame>>

NextPair ==
    \/ \E succeeds \in BOOLEAN : PairCall(succeeds)
    \/ PairTick

SpecPair == Init /\ [][NextPair]_vars

\* C40: the two exported breakers are equivalent: given the same calls at the
\* same times, after each call the scraper.CircuitBreaker and the
\* stealth_scraper.CircuitBreaker are in the same state with the same
\* failure_count.
C40_BreakersEquivalent ==
    /\ stealth_breaker.state = circuit_breakers["t1"].state
    /\ stealth_breaker.failure_count = circuit_breakers["t1"].failure_count

====
